---------------------------- MODULE Spec2Model ----------------------------
(***************************************************************************)
(* A model of the virtualization engine of svelte-virtual-list:            *)
(*   src/src/lib/utils/virtualList.ts       the range calculator, the     *)
(*                                           height ledger, the block-sum  *)
(*                                           index, the chunked pass       *)
(*   src/src/lib/utils/heightCalculation.ts the debounced measurement      *)
(*   src/src/lib/utils/raf.ts               the animation-frame scheduler  *)
(*   src/unnamed/part_003 (lines 594-1113)  the mounted component          *)
(*                                                                         *)
(* JavaScript numbers are modelled as extended rationals (exact, without   *)
(* the rounding of IEEE doubles and without a negative zero): a record     *)
(* [n, d] with d > 0 is the rational n/d in lowest terms, [1, 0] is        *)
(* Infinity, [-1, 0] is -Infinity and [0, 0] is NaN.                       *)
(***************************************************************************)
EXTENDS Integers, Sequences, FiniteSets, TLC

VARIABLES
    args,           \* harness: the arguments of the pending call of a pure function
    ret,            \* harness: what the call returned
    called,         \* harness: the function that has been applied, or "none"
    callLog,        \* harness: the calls of onProgress and onComplete, in order
    timers,         \* harness: the pending setTimeout callbacks, in the order they fire
    component       \* the mounted component and the page around it, a record

harnessVars == <<args, ret, called, callLog>>

\* what a call of a pure function leaves alone
idleVars == <<callLog, timers, component>>

vars == <<args, ret, called, callLog, timers, component>>

-----------------------------------------------------------------------------
(* JavaScript number arithmetic                                            *)

RECURSIVE Gcd(_, _)
Gcd(a, b) == IF b = 0 THEN a ELSE Gcd(b, a % b)

AbsInt(i) == IF i < 0 THEN -i ELSE i

SignInt(i) == IF i < 0 THEN -1 ELSE IF i > 0 THEN 1 ELSE 0

\* The number n/d; d = 0 gives Infinity, -Infinity or NaN by the sign of n.
Frac(n, d) ==
    IF d = 0 THEN [n |-> SignInt(n), d |-> 0]
    ELSE LET g == Gcd(AbsInt(n), AbsInt(d))
             s == IF d < 0 THEN -1 ELSE 1
         IN  [n |-> (s * n) \div g, d |-> (s * d) \div g]

Num(i) == [n |-> i, d |-> 1]

NaN == [n |-> 0, d |-> 0]

Infinity == [n |-> 1, d |-> 0]

NegInfinity == [n |-> -1, d |-> 0]

IsNaN(x) == x.d = 0 /\ x.n = 0

\* Number.isFinite
NumberIsFinite(x) == x.d > 0

\* a safe integer value (finite, no fractional part)
IsInteger(x) == x.d = 1

\* x < y; false when either is NaN
Lt(x, y) ==
    IF IsNaN(x) \/ IsNaN(y) THEN FALSE
    ELSE IF x.d = 0 /\ y.d = 0 THEN x.n < y.n
    ELSE IF x.d = 0 THEN x.n < 0
    ELSE IF y.d = 0 THEN y.n > 0
    ELSE x.n * y.d < y.n * x.d

\* x <= y; false when either is NaN
Le(x, y) == ~IsNaN(x) /\ ~IsNaN(y) /\ (x = y \/ Lt(x, y))

Gt(x, y) == Lt(y, x)

Add(x, y) ==
    IF IsNaN(x) \/ IsNaN(y) THEN NaN
    ELSE IF x.d = 0 /\ y.d = 0 THEN (IF x.n = y.n THEN x ELSE NaN)
    ELSE IF x.d = 0 THEN x
    ELSE IF y.d = 0 THEN y
    ELSE Frac(x.n * y.d + y.n * x.d, x.d * y.d)

Neg(x) == [n |-> -x.n, d |-> x.d]

Sub(x, y) == Add(x, Neg(y))

Mul(x, y) ==
    IF IsNaN(x) \/ IsNaN(y) THEN NaN
    ELSE Frac(x.n * y.n, x.d * y.d)

\* x / y: a finite nonzero number over zero is an infinity, 0/0 is NaN
Div(x, y) ==
    IF IsNaN(x) \/ IsNaN(y) THEN NaN
    ELSE IF x.d = 0 /\ y.d = 0 THEN NaN
    ELSE IF x.d = 0 THEN (IF y.n < 0 THEN Neg(x) ELSE x)
    ELSE IF y.d = 0 THEN Num(0)
    ELSE Frac(x.n * y.d, x.d * y.n)

MathFloor(x) == IF x.d = 0 THEN x ELSE Num(x.n \div x.d)

MathCeil(x) == IF x.d = 0 THEN x ELSE Num(-((-x.n) \div x.d))

MathMax(x, y) ==
    IF IsNaN(x) \/ IsNaN(y) THEN NaN ELSE IF Lt(x, y) THEN y ELSE x

MathMin(x, y) ==
    IF IsNaN(x) \/ IsNaN(y) THEN NaN ELSE IF Lt(y, x) THEN y ELSE x

MathAbs(x) == [n |-> AbsInt(x.n), d |-> x.d]

-----------------------------------------------------------------------------
(* Range calculator: src/src/lib/utils/virtualList.ts                      *)

Modes == {"topToBottom", "bottomToTop"}

\* A faulty variant: the content height minus the container height, without a floor at 0.
calculateScrollPosition_unclamped(totalItems, itemHeight, containerHeight, gridColumns) ==
    Sub(Mul(MathCeil(Div(totalItems, gridColumns)), itemHeight), containerHeight)

\* calculateScrollPosition(totalItems, itemHeight, containerHeight, gridColumns = 1)
calculateScrollPosition(totalItems, itemHeight, containerHeight, gridColumns) ==
    IF totalItems = Num(0) THEN Num(0)
    ELSE LET totalRows == MathCeil(Div(totalItems, gridColumns))
             totalHeight == MathMax(Num(0), Mul(totalRows, itemHeight))
         IN  MathMax(Num(0), Sub(totalHeight, containerHeight))

\* A faulty variant: two rows, not one, are added to the rows the viewport holds.
calculateVisibleRange_extraRow(scrollTop, viewportHeight, itemHeight, gridColumns0, totalItems, bufferSize, mode) ==
    LET visibleRows == Add(MathCeil(Div(viewportHeight, itemHeight)), Num(2))
        firstRow == MathFloor(Div(scrollTop, itemHeight))
    IN  IF mode = "bottomToTop"
        THEN [start |-> MathMax(Num(0), Sub(Sub(Sub(totalItems, firstRow), visibleRows),
                                            bufferSize)),
              end |-> MathMin(totalItems, Add(Sub(totalItems, firstRow), bufferSize))]
        ELSE [start |-> MathMax(Num(0), Sub(firstRow, bufferSize)),
              end |-> MathMin(totalItems, Add(Add(firstRow, visibleRows), bufferSize))]

\* A faulty variant: the buffer is added after the visible rows only, not before them.
calculateVisibleRange_noLeadingBuffer(scrollTop, viewportHeight, itemHeight, gridColumns0, totalItems, bufferSize, mode) ==
    LET visibleRows == Add(MathCeil(Div(viewportHeight, itemHeight)), Num(1))
        firstRow == MathFloor(Div(scrollTop, itemHeight))
    IN  IF mode = "bottomToTop"
        THEN [start |-> MathMax(Num(0), Sub(Sub(totalItems, firstRow), visibleRows)),
              end |-> MathMin(totalItems, Add(Sub(totalItems, firstRow), bufferSize))]
        ELSE [start |-> MathMax(Num(0), firstRow),
              end |-> MathMin(totalItems, Add(Add(firstRow, visibleRows), bufferSize))]

\* calculateVisibleRange(scrollTop, viewportHeight, itemHeight, gridColumns = 1,
\*                       totalItems, bufferSize, mode)
calculateVisibleRange(scrollTop, viewportHeight, itemHeight, gridColumns0, totalItems, bufferSize, mode) ==
    LET gridColumns == IF Lt(gridColumns0, Num(1)) THEN Num(1) ELSE gridColumns0
        totalRows == MathCeil(Div(totalItems, gridColumns))
    IN  IF mode = "bottomToTop"
        THEN LET visibleRows == Add(MathCeil(Div(viewportHeight, itemHeight)), Num(1))
                 bottomRowIndex == Sub(totalRows, MathFloor(Div(scrollTop, itemHeight)))
                 startRow == MathMax(Num(0), Sub(Sub(bottomRowIndex, visibleRows), bufferSize))
                 endRow == MathMin(totalRows, Add(bottomRowIndex, bufferSize))
             IN  [start |-> Mul(startRow, gridColumns),
                  end |-> MathMin(totalItems, Mul(endRow, gridColumns))]
        ELSE LET startRow == MathFloor(Div(scrollTop, itemHeight))
                 endRow == MathMin(totalRows,
                               Add(Add(startRow, MathCeil(Div(viewportHeight, itemHeight))),
                                   Num(1)))
             IN  [start |-> MathMax(Num(0), Sub(Mul(startRow, gridColumns),
                                                 Mul(bufferSize, gridColumns))),
                  end |-> MathMin(totalItems, Add(Mul(endRow, gridColumns),
                                                   Mul(bufferSize, gridColumns)))]

\* A faulty variant: the bottomToTop offset is measured from the start of the range.
calculateTransformY_fromStart(mode, totalItems, visibleEnd, visibleStart, itemHeight, gridColumns) ==
    IF mode = "bottomToTop"
    THEN Mul(Sub(totalItems, visibleStart), itemHeight)
    ELSE Mul(visibleStart, itemHeight)

\* calculateTransformY(mode, totalItems, visibleEnd, visibleStart, itemHeight, gridColumns = 1)
calculateTransformY(mode, totalItems, visibleEnd, visibleStart, itemHeight, gridColumns) ==
    LET startRow == MathFloor(Div(visibleStart, gridColumns))
    IN  IF mode = "bottomToTop"
        THEN LET totalRows == MathCeil(Div(totalItems, gridColumns))
                 endRow == MathCeil(Div(visibleEnd, gridColumns))
             IN  Mul(Sub(totalRows, endRow), itemHeight)
        ELSE Mul(startRow, itemHeight)

-----------------------------------------------------------------------------
(* Block-sum index: src/src/lib/utils/virtualList.ts                       *)
(* A height cache (Record<number, number>) is a function from the keys it  *)
(* holds, which are numbers, to their heights. An optional argument is a   *)
(* sequence of length at most one: <<>> is undefined, <<v>> is the value.  *)

\* heightCache[i] ?? calculatedItemHeight
HeightOr(heightCache, i, calculatedItemHeight) ==
    IF Num(i) \in DOMAIN heightCache THEN heightCache[Num(i)] ELSE calculatedItemHeight

\* the for loop of buildBlockSums, from index i with the running sum and the
\* sums pushed so far, followed by the push of the last partial block
RECURSIVE buildBlockSumsLoop(_, _, _, _, _, _, _)
buildBlockSumsLoop(heightCache, calculatedItemHeight, totalItems, blockSize, i, sum, blockSums) ==
    IF i < totalItems
    THEN LET sum1 == Add(sum, HeightOr(heightCache, i, calculatedItemHeight))
         IN  buildBlockSumsLoop(heightCache, calculatedItemHeight, totalItems, blockSize,
                                i + 1, sum1,
                                IF (i + 1) % blockSize = 0 THEN Append(blockSums, sum1)
                                                          ELSE blockSums)
    ELSE IF totalItems % blockSize # 0 THEN Append(blockSums, sum) ELSE blockSums

\* A faulty variant: the last sum is pushed also when the last block is complete.
buildBlockSums_alwaysPushLast(heightCache, calculatedItemHeight, totalItems, blockSize) ==
    LET sums == buildBlockSumsLoop(heightCache, calculatedItemHeight, totalItems, blockSize,
                                   0, Num(0), <<>>)
    IN  IF totalItems > 0 /\ totalItems % blockSize = 0
        THEN Append(sums, sums[Len(sums)]) ELSE sums

\* buildBlockSums(heightCache, calculatedItemHeight, totalItems, blockSize = 1000)
buildBlockSums(heightCache, calculatedItemHeight, totalItems, blockSize) ==
    buildBlockSumsLoop(heightCache, calculatedItemHeight, totalItems, blockSize,
                       0, Num(0), <<>>)

\* for (let i = start; i < idx; i++) offset += heightCache[i] ?? calculatedItemHeight
RECURSIVE offsetLoop(_, _, _, _, _)
offsetLoop(heightCache, calculatedItemHeight, i, idx, offset) ==
    IF i < idx
    THEN offsetLoop(heightCache, calculatedItemHeight, i + 1, idx,
                    Add(offset, HeightOr(heightCache, i, calculatedItemHeight)))
    ELSE offset

\* blockSums[k] of a JavaScript array (0-based); reading past the end gives
\* undefined, which turns the sum into NaN
ArrayAt(blockSums, k) ==
    IF k >= 0 /\ k < Len(blockSums) THEN blockSums[k + 1] ELSE NaN

\* A faulty variant: the prefix of the current block is read instead of the previous one.
getScrollOffsetForIndex_wrongBlock(heightCache, calculatedItemHeight, idx, blockSums, blockSize) ==
    IF idx <= 0 THEN Num(0)
    ELSE IF blockSums = <<>>
    THEN offsetLoop(heightCache, calculatedItemHeight, 0, idx, Num(0))
    ELSE LET blockIdx == idx \div blockSize
         IN  offsetLoop(heightCache, calculatedItemHeight, blockIdx * blockSize, idx,
                        IF blockIdx > 0 THEN ArrayAt(blockSums[1], blockIdx) ELSE Num(0))

\* getScrollOffsetForIndex(heightCache, calculatedItemHeight, idx, blockSums?, blockSize = 1000)
getScrollOffsetForIndex(heightCache, calculatedItemHeight, idx, blockSums, blockSize) ==
    IF idx <= 0 THEN Num(0)
    ELSE IF blockSums = <<>>
    THEN offsetLoop(heightCache, calculatedItemHeight, 0, idx, Num(0))
    ELSE LET blockIdx == idx \div blockSize
             offset == IF blockIdx > 0 THEN ArrayAt(blockSums[1], blockIdx - 1) ELSE Num(0)
             start == blockIdx * blockSize
         IN  offsetLoop(heightCache, calculatedItemHeight, start, idx, offset)

-----------------------------------------------------------------------------
(* Progressive initializer: processChunked, src/src/lib/utils/virtualList.ts *)

\* A faulty variant: the end of the chunk is not capped by the length.
chunkEnd_uncapped(startIdx, chunkSize, length) == startIdx + chunkSize

\* const endIdx = Math.min(startIdx + chunkSize, items.length)
chunkEnd(startIdx, chunkSize, length) ==
    IF startIdx + chunkSize < length THEN startIdx + chunkSize ELSE length

OnProgress(processed) == [cb |-> "onProgress", arg |-> processed]

OnComplete == [cb |-> "onComplete", arg |-> 0]

\* the callbacks processChunk(startIdx) makes: onProgress(endIdx), and onComplete()
\* unless a next chunk remains
processChunkCalls(startIdx, chunkSize, length) ==
    LET endIdx == chunkEnd(startIdx, chunkSize, length)
    IN  IF endIdx < length THEN <<OnProgress(endIdx)>>
                           ELSE <<OnProgress(endIdx), OnComplete>>

\* A faulty variant: the next chunk is given to two timers.
processChunkTimers_twice(startIdx, chunkSize, length) ==
    LET endIdx == chunkEnd(startIdx, chunkSize, length)
    IN  IF endIdx < length THEN <<[fn |-> "processChunk", startIdx |-> endIdx],
                                  [fn |-> "processChunk", startIdx |-> endIdx]>>
                           ELSE <<>>

\* the timers processChunk(startIdx) sets: setTimeout(() => processChunk(endIdx), 0)
processChunkTimers(startIdx, chunkSize, length) ==
    LET endIdx == chunkEnd(startIdx, chunkSize, length)
    IN  IF endIdx < length THEN <<[fn |-> "processChunk", startIdx |-> endIdx]>>
                           ELSE <<>>

-----------------------------------------------------------------------------
(* Height ledger: calculateAverageHeight, src/src/lib/utils/virtualList.ts *)
(* A slot of itemElements is a record: present is whether the slot holds   *)
(* an element (not null), throws whether its getBoundingClientRect throws, *)
(* height the height it reports otherwise.                                 *)

NullElement == [present |-> FALSE, throws |-> FALSE, height |-> NaN]

Element(height) == [present |-> TRUE, throws |-> FALSE, height |-> height]

ThrowingElement == [present |-> TRUE, throws |-> TRUE, height |-> NaN]

\* itemElements.filter((el) => el)
validElementsOf(itemElements) == SelectSeq(itemElements, LAMBDA el : el.present)

\* A faulty variant: every index is measured again, cached or not.
needsMeasure_always(heightCache, itemIndex) == TRUE

\* !newHeightCache[itemIndex]: no entry, or an entry that is 0 or NaN
needsMeasure(heightCache, itemIndex) ==
    \/ itemIndex \notin DOMAIN heightCache
    \/ heightCache[itemIndex] = Num(0)
    \/ IsNaN(heightCache[itemIndex])

\* A faulty variant: whatever the element reports is stored.
measure_unchecked(el) == IF el.throws THEN "caught" ELSE "store"

\* try { height = el.getBoundingClientRect().height;
\*       if (Number.isFinite(height) && height > 0) store } catch { skip }
\* what happens to the measurement of one element; "raised" would be an exception
\* leaving the function
measure(el) ==
    IF el.throws THEN "caught"
    ELSE IF NumberIsFinite(el.height) /\ Gt(el.height, Num(0)) THEN "store"
    ELSE "discard"

\* newHeightCache[itemIndex] = height
CachePut(heightCache, itemIndex, height) ==
    [k \in (DOMAIN heightCache) \cup {itemIndex} |->
        IF k = itemIndex THEN height ELSE heightCache[k]]

\* validElements.forEach((el, i) => ...), from position i (0-based) on
RECURSIVE cacheHeightsLoop(_, _, _, _)
cacheHeightsLoop(validElements, start, newHeightCache, i) ==
    IF i >= Len(validElements) THEN newHeightCache
    ELSE LET el == validElements[i + 1]
             itemIndex == Add(start, Num(i))
         IN  cacheHeightsLoop(validElements, start,
                 IF needsMeasure(newHeightCache, itemIndex) /\ measure(el) = "store"
                 THEN CachePut(newHeightCache, itemIndex, el.height)
                 ELSE newHeightCache,
                 i + 1)

\* whether an exception leaves the forEach
RECURSIVE cacheHeightsThrows(_, _, _, _)
cacheHeightsThrows(validElements, start, newHeightCache, i) ==
    IF i >= Len(validElements) THEN FALSE
    ELSE LET el == validElements[i + 1]
             itemIndex == Add(start, Num(i))
             measured == needsMeasure(newHeightCache, itemIndex)
         IN  \/ measured /\ measure(el) = "raised"
             \/ cacheHeightsThrows(validElements, start,
                    IF measured /\ measure(el) = "store"
                    THEN CachePut(newHeightCache, itemIndex, el.height)
                    ELSE newHeightCache,
                    i + 1)

\* Object.values(newHeightCache).filter((h) => Number.isFinite(h) && h > 0): its indices
validHeightKeys(heightCache) ==
    { k \in DOMAIN heightCache :
        NumberIsFinite(heightCache[k]) /\ Gt(heightCache[k], Num(0)) }

\* validHeights.reduce((sum, h) => sum + h, 0)
RECURSIVE sumHeights(_, _)
sumHeights(heightCache, keys) ==
    IF keys = {} THEN Num(0)
    ELSE LET k == CHOOSE x \in keys : TRUE
         IN  Add(heightCache[k], sumHeights(heightCache, keys \ {k}))

\* A faulty variant: the mean is taken over the indices of the current range only.
calculateAverageHeight_rangeMean(itemElements, visibleRangeStart, heightCache, currentItemHeight) ==
    LET validElements == validElementsOf(itemElements)
        newHeightCache == cacheHeightsLoop(validElements, visibleRangeStart, heightCache, 0)
        inRange == { k \in validHeightKeys(newHeightCache) :
                       \E i \in 0..(Len(validElements) - 1) :
                           k = Add(visibleRangeStart, Num(i)) }
    IN  [threw |-> FALSE,
         newHeight |-> IF inRange # {}
                       THEN Div(sumHeights(newHeightCache, inRange),
                                Num(Cardinality(inRange)))
                       ELSE currentItemHeight,
         newLastMeasuredIndex |-> visibleRangeStart,
         updatedHeightCache |-> IF Len(validElements) = 0 THEN heightCache
                                ELSE newHeightCache]

\* calculateAverageHeight(itemElements, visibleRange, heightCache, currentItemHeight)
calculateAverageHeight(itemElements, visibleRangeStart, heightCache, currentItemHeight) ==
    LET validElements == validElementsOf(itemElements)
    IN  IF Len(validElements) = 0
        THEN [threw |-> FALSE,
              newHeight |-> currentItemHeight,
              newLastMeasuredIndex |-> visibleRangeStart,
              updatedHeightCache |-> heightCache]
        ELSE LET newHeightCache == cacheHeightsLoop(validElements, visibleRangeStart,
                                                    heightCache, 0)
                 validHeights == validHeightKeys(newHeightCache)
             IN  [threw |-> cacheHeightsThrows(validElements, visibleRangeStart,
                                               heightCache, 0),
                  newHeight |->
                      IF Cardinality(validHeights) > 0
                      THEN Div(sumHeights(newHeightCache, validHeights),
                               Num(Cardinality(validHeights)))
                      ELSE currentItemHeight,
                  newLastMeasuredIndex |-> visibleRangeStart,
                  updatedHeightCache |-> newHeightCache]

-----------------------------------------------------------------------------
(* Bounds of the inputs                                                    *)

MaxScrollTop == 12

MaxViewport == 5

MaxItemHeight == 3

MaxItems == 4

MaxBuffer == 3

\* zero and negative item heights and item counts down to -MaxNeg
MaxNeg == 2

\* the default of the gridColumns parameter
DefaultGridColumns == 1

\* block-sum harness: item counts, block sizes
MaxBlockItems == 4

MaxBlockSize == 3

\* chunk harness: array lengths, chunk sizes
MaxChunkLength == 7

MaxChunkSize == 4

\* height-ledger harness: rendered slots, first index of the range
MaxElements == 2

MaxStart == 1

-----------------------------------------------------------------------------
(* The component: src/unnamed/part_003, lines 594-1113                     *)
(*                                                                         *)
(* The component is a record c of its props, its state (part_003:633-666), *)
(* the scheduler of raf.ts (scheduled, callback) and the page around it:   *)
(* viewportScrollTop is viewportElement.scrollTop, containerHeight the     *)
(* height of the container's bounding rectangle, contentHeight the height  *)
(* style of the content as rendered last, frames the pending callbacks of  *)
(* requestAnimationFrame, timers those of setTimeout, ticks the pending    *)
(* continuations of tick() (none between two steps), resizeObserver is     *)
(* "null", "initial" (observing, the first notification pending) or        *)
(* "observing", scrollEvent whether a scroll event awaits dispatch, and    *)
(* measureDeps what the measurement effect read when it ran last; events   *)
(* counts what the user, the container and the parent have done. The       *)
(* operators below are the component's functions, effects and callbacks,   *)
(* each from a record to the record it leaves.                             *)
(* itemsLength is items.length and itemElements is itemElements.length:    *)
(* after a render the first RenderedCount slots of itemElements hold the   *)
(* rendered elements and the others hold null (bind:this).                 *)
(*                                                                         *)
(* visibleItems passes six arguments (scrollTop, viewportHeight,           *)
(* calculatedItemHeight, items.length, bufferSize, mode), the parameters   *)
(* of calculateVisibleRange without gridColumns (the signature of          *)
(* virtualList.test.ts:512-519); they are bound here by name, with         *)
(* gridColumns at its default. calculateAverageHeightDebounced passes      *)
(* lastMeasuredIndex where calculateAverageHeight has currentItemHeight,   *)
(* and that is what the measurement timer does here.                       *)
(*                                                                         *)
(* Effects run in the order of their declaration, in a microtask after     *)
(* the change that made them stale, and the continuations of tick() after  *)
(* them: a step of the model is a callback of the page together with the   *)
(* effects and continuations that follow it before the next task.          *)

\* the default of the defaultEstimatedItemHeight prop
DefaultEstimatedItemHeight == 40

\* the chunk effect initializes in chunks above this many items
ChunkThreshold == 1000

\* the chunkSize state
ChunkSize == 50

\* the empty object {}
EmptyCache == [k \in {} |-> NaN]

\* the state after the script of the component has run, before it is mounted
Constructed(n, m, b, ch) ==
    [itemsLength |-> n, mode |-> m, bufferSize |-> b,
     scrollTop |-> Num(0), height |-> Num(0),
     calculatedItemHeight |-> Num(DefaultEstimatedItemHeight),
     initialized |-> FALSE, isCalculatingHeight |-> FALSE, isScrolling |-> FALSE,
     lastMeasuredIndex |-> Num(-1), heightUpdateTimeout |-> "null",
     heightCache |-> EmptyCache, processedItems |-> 0, itemElements |-> 0,
     scheduled |-> FALSE, callback |-> "null",
     mounted |-> FALSE, viewportScrollTop |-> Num(0), containerHeight |-> ch,
     contentHeight |-> Num(0), frames |-> <<>>, timers |-> <<>>,
     resizeObserver |-> "null", scrollEvent |-> FALSE, measureDeps |-> "none",
     events |-> 0,
     ticks |-> <<>>, overflow |-> FALSE]

\* nothing is scheduled, nothing has been called back and no component is on the page
Idle ==
    /\ callLog = <<>>
    /\ timers = <<>>
    /\ component = Constructed(0, "topToBottom", 0, Num(0))

\* the element of a singleton
The(S) == CHOOSE x \in S : TRUE

\* x === y
StrictEquals(x, y) == ~IsNaN(x) /\ x = y

\* visibleItems()
visibleItems(c) ==
    IF c.itemsLength = 0 THEN [start |-> Num(0), end |-> Num(0)]
    ELSE LET viewportHeight == IF c.height = Num(0) \/ IsNaN(c.height) THEN Num(0)
                               ELSE c.height
         IN  calculateVisibleRange(c.scrollTop, viewportHeight, c.calculatedItemHeight,
                                   Num(DefaultGridColumns), Num(c.itemsLength),
                                   Num(c.bufferSize), c.mode)

\* the index Array.prototype.slice makes of an argument x on an array of length len
SliceIndex(x, len) ==
    IF IsNaN(x) \/ x = NegInfinity THEN 0
    ELSE IF x = Infinity THEN len
    ELSE LET i == IF x.n < 0 THEN MathCeil(x).n ELSE MathFloor(x).n
         IN  IF i < 0 THEN (IF len + i < 0 THEN 0 ELSE len + i)
             ELSE (IF i < len THEN i ELSE len)

\* the number of items of items.slice(visibleItems().start, visibleItems().end), which
\* the each block renders
RenderedCount(c) ==
    The({ LET from == SliceIndex(range.start, c.itemsLength)
              to == SliceIndex(range.end, c.itemsLength)
          IN  IF to > from THEN to - from ELSE 0
        : range \in {visibleItems(c)} })

\* the template: the height style of the content and the each block with its bind:this
Render(c) ==
    The({ [c EXCEPT !.contentHeight = MathMax(c.height, Mul(Num(c.itemsLength),
                                                            c.calculatedItemHeight)),
                    !.itemElements = IF count > @ THEN count ELSE @]
        : count \in {RenderedCount(c)} })

\* the laid-out height of the content: its height style when that is a length, and at
\* least the height of the viewport (min-height: 100%)
LayoutContentHeight(c) ==
    IF NumberIsFinite(c.contentHeight) /\ Le(Num(0), c.contentHeight)
    THEN MathMax(c.contentHeight, c.containerHeight)
    ELSE c.containerHeight

\* the largest scrollTop the viewport can have
MaxViewportScrollTop(c) == Sub(LayoutContentHeight(c), c.containerHeight)

\* viewportElement.scrollTop = x: the page clamps it and queues a scroll event if it moved
SetViewportScrollTop(c, x) ==
    The({ [c EXCEPT !.viewportScrollTop = v, !.scrollEvent = @ \/ v # c.viewportScrollTop]
        : v \in {IF IsNaN(x) THEN Num(0)
                 ELSE MathMin(MathMax(x, Num(0)), MaxViewportScrollTop(c))} })

\* the page lays out again: a viewport scrolled beyond its content is scrolled back
Layout(c) ==
    The({ IF Gt(c.viewportScrollTop, max)
          THEN [c EXCEPT !.viewportScrollTop = max, !.scrollEvent = TRUE]
          ELSE c
        : max \in {MaxViewportScrollTop(c)} })

RequestAnimationFrame(c, f) == [c EXCEPT !.frames = Append(@, f)]

SetTimeout(c, t) == [c EXCEPT !.timers = Append(@, t)]

Tick(c, t) == [c EXCEPT !.ticks = Append(@, t)]

\* calculateAverageHeightDebounced, up to its return
calculateAverageHeightDebounced(c) ==
    IF c.isCalculatingHeight \/ c.heightUpdateTimeout # "null"
    THEN [c EXCEPT !.heightUpdateTimeout = "null"]
    ELSE The({ IF StrictEquals(visibleRange.start, c.lastMeasuredIndex)
               THEN [c EXCEPT !.heightUpdateTimeout = "null"]
               ELSE [SetTimeout(c, [fn |-> "measure",
                                    visibleRangeStart |-> visibleRange.start,
                                    heightCache |-> c.heightCache,
                                    lastMeasuredIndex |-> c.lastMeasuredIndex,
                                    calculatedItemHeight |-> c.calculatedItemHeight])
                       EXCEPT !.heightUpdateTimeout = "timeout"]
             : visibleRange \in {visibleItems(c)} })

\* the effect "Trigger height calculation when items are rendered"
measureEffect(c) ==
    IF c.itemElements > 0 /\ ~c.isCalculatingHeight
    THEN [calculateAverageHeightDebounced(c) EXCEPT
              !.measureDeps = IF c.heightUpdateTimeout # "null" THEN "args" ELSE "range"]
    ELSE [c EXCEPT !.measureDeps = "length"]

\* the signals the measurement effect read in s differ in c
measureEffectStale(s, c) ==
    \/ s.itemElements # c.itemElements
    \/ /\ s.measureDeps \in {"args", "range"}
       /\ \/ s.isCalculatingHeight # c.isCalculatingHeight
          \/ s.heightCache # c.heightCache
          \/ s.lastMeasuredIndex # c.lastMeasuredIndex
          \/ s.calculatedItemHeight # c.calculatedItemHeight
    \/ /\ s.measureDeps = "range"
       /\ \/ s.itemsLength # c.itemsLength
          \/ s.itemsLength # 0 /\ (s.scrollTop # c.scrollTop \/ s.height # c.height)

\* the index in items of the item the each block renders in slot i (from 1): the slice
\* in its order, reversed in bottomToTop mode
RenderedItem(c, i) ==
    IF c.mode = "bottomToTop" THEN SliceIndex(visibleItems(c).end, c.itemsLength) - i
    ELSE SliceIndex(visibleItems(c).start, c.itemsLength) + i - 1

\* the height the element of the item at index reports: the items alternate between
\* a height below and a height above the default estimate
ItemHeight(index) == IF index % 2 = 0 THEN Num(30) ELSE Num(50)

\* the component was mounted and has been destroyed: its effects are gone, and bind:this
\* has set viewportElement, containerElement and the slots of itemElements to null
Destroyed(c) == ~c.mounted /\ c.resizeObserver # "null"

\* the slots of itemElements, the rendered ones with the heights they report
ItemElements(c) ==
    The({ [i \in 1..c.itemElements |->
              IF i <= count /\ ~Destroyed(c)
              THEN Element(ItemHeight(RenderedItem(c, i))) ELSE NullElement]
        : count \in {RenderedCount(c)} })

\* the callback of the setTimeout of calculateAverageHeightDebounced, with onUpdate
measureTimeout(c, t) ==
    The({ IF Gt(MathAbs(Sub(result.newHeight, t.calculatedItemHeight)), Num(1))
          THEN [c EXCEPT !.calculatedItemHeight = result.newHeight,
                         !.lastMeasuredIndex = result.newLastMeasuredIndex,
                         !.heightCache = result.updatedHeightCache]
          ELSE c
        : result \in {calculateAverageHeight(ItemElements(c), t.visibleRangeStart,
                                             t.heightCache, t.lastMeasuredIndex)} })

\* the scroll position of the bottom of the list, as both bottomToTop effects compute it
BottomScrollTop(c) ==
    LET totalHeight == MathMax(Num(0), Mul(Num(c.itemsLength), c.calculatedItemHeight))
    IN  MathMax(Num(0), Sub(totalHeight, c.height))

\* the effect "Add new effect to handle height changes"; reading viewportElement.scrollTop
\* makes the page lay out the content the template has rendered
heightChangeEffect(c) ==
    IF c.initialized /\ c.mode = "bottomToTop"
    THEN The({ IF Gt(MathAbs(Sub(l.viewportScrollTop, BottomScrollTop(l))),
                     l.calculatedItemHeight)
               THEN RequestAnimationFrame(l, [fn |-> "scrollToBottom",
                                              target |-> BottomScrollTop(l)])
               ELSE l
             : l \in {Layout(c)} })
    ELSE c

heightChangeEffectStale(s, c) ==
    \/ s.initialized # c.initialized
    \/ /\ s.initialized /\ s.mode = "bottomToTop"
       /\ \/ s.itemsLength # c.itemsLength
          \/ s.calculatedItemHeight # c.calculatedItemHeight
          \/ s.height # c.height

\* the effect "Update container height when element is mounted"
containerHeightEffect(c) == [c EXCEPT !.height = c.containerHeight]

\* the effect "Special handling for bottom-to-top mode initialization"
bottomToTopInitEffect(c) ==
    IF c.mode = "bottomToTop" /\ Gt(c.height, Num(0)) /\ c.itemsLength # 0 /\ ~c.initialized
    THEN Tick(c, [fn |-> "initScroll", target |-> BottomScrollTop(c)])
    ELSE c

bottomToTopInitEffectStale(s, c) ==
    /\ s.mode = "bottomToTop"
    /\ \/ s.height # c.height
       \/ /\ Gt(s.height, Num(0))
          /\ \/ s.itemsLength # c.itemsLength
             \/ /\ s.itemsLength # 0
                /\ \/ s.initialized # c.initialized
                   \/ ~s.initialized /\ s.calculatedItemHeight # c.calculatedItemHeight

\* the callbacks of processChunked applied to the component
RECURSIVE chunkCallbacks(_, _)
chunkCallbacks(c, calls) ==
    IF calls = <<>> THEN c
    ELSE chunkCallbacks(IF Head(calls).cb = "onProgress"
                        THEN [c EXCEPT !.processedItems = Head(calls).arg]
                        ELSE [c EXCEPT !.initialized = TRUE],
                        Tail(calls))

\* processChunk(startIdx) of a call of processChunked on an array of length items, with
\* the callbacks of initializeChunked; the timer it sets keeps the array of the call
processChunk(c, startIdx, length) ==
    The({ [chunkCallbacks(c, processChunkCalls(startIdx, ChunkSize, length))
             EXCEPT !.timers = @ \o [i \in 1..Len(set) |->
                                        [fn |-> "processChunk",
                                         startIdx |-> set[i].startIdx,
                                         length |-> length]]]
        : set \in {processChunkTimers(startIdx, ChunkSize, length)} })

\* initializeChunked, up to its await
initializeChunked(c) ==
    IF c.itemsLength = 0 THEN c
    ELSE processChunk(c, 0, c.itemsLength)

\* the effect "Modify the mount effect to use chunked initialization"
chunkEffect(c) ==
    IF c.itemsLength > ChunkThreshold THEN initializeChunked(c)
    ELSE [c EXCEPT !.initialized = TRUE]

chunkEffectStale(s, c) == s.itemsLength # c.itemsLength

\* updateHeightAndScroll of virtualList.ts, called with the state of the component
utilsUpdateHeightAndScroll(c, immediate) ==
    IF immediate /\ c.initialized
    THEN IF c.mode = "bottomToTop"
         THEN LET visibleIndex == MathFloor(Div(c.scrollTop, c.calculatedItemHeight))
                  newScrollTop == Mul(visibleIndex, c.calculatedItemHeight)
              IN  [SetViewportScrollTop([c EXCEPT !.height = c.containerHeight], newScrollTop)
                     EXCEPT !.scrollTop = newScrollTop]
         ELSE [c EXCEPT !.height = c.containerHeight]
    ELSE c

\* updateHeightAndScroll of the component
updateHeightAndScroll(c, immediate) ==
    IF ~c.initialized /\ c.mode = "bottomToTop"
    THEN Tick(c, [fn |-> "initialHeight", target |-> NaN])
    ELSE utilsUpdateHeightAndScroll(c, immediate)

\* onMount
onMount(c) ==
    [updateHeightAndScroll(c, FALSE) EXCEPT !.resizeObserver = "initial", !.mounted = TRUE]

\* a scheduler that keeps the callback of the first call of a frame
rafSchedule_firstCallback(c, fn) ==
    IF ~c.scheduled
    THEN RequestAnimationFrame([c EXCEPT !.callback = fn, !.scheduled = TRUE],
                               [fn |-> "rafScheduled", target |-> NaN])
    ELSE c

\* createRafScheduler: the function it returns, called with fn
rafSchedule(c, fn) ==
    IF ~c.scheduled
    THEN RequestAnimationFrame([c EXCEPT !.callback = fn, !.scheduled = TRUE],
                               [fn |-> "rafScheduled", target |-> NaN])
    ELSE [c EXCEPT !.callback = fn]

\* a handler that samples the offset on every scroll event
handleScroll_everyEvent(c) == [c EXCEPT !.scrollTop = c.viewportScrollTop]

\* handleScroll
handleScroll(c) ==
    IF ~c.isScrolling
    THEN rafSchedule([c EXCEPT !.isScrolling = TRUE], "commitScroll")
    ELSE c

\* the callback handleScroll passes to rafSchedule
commitScroll(c) == [c EXCEPT !.scrollTop = c.viewportScrollTop, !.isScrolling = FALSE]

\* both the viewport and the scrollTop state are set to target
ScrollBoth(c, target) == [SetViewportScrollTop(c, target) EXCEPT !.scrollTop = target]

\* a continuation of tick()
RunTick(c, t) ==
    CASE t.fn = "initScroll" ->
             RequestAnimationFrame(ScrollBoth(c, t.target),
                                   [fn |-> "initCheck", target |-> t.target])
      [] t.fn = "initialHeight" ->
             Tick([c EXCEPT !.height = c.containerHeight],
                  [fn |-> "finalHeight", target |-> NaN])
      [] t.fn = "finalHeight" ->
             LET targetScrollTop == calculateScrollPosition(Num(c.itemsLength),
                                        c.calculatedItemHeight, c.containerHeight,
                                        Num(DefaultGridColumns))
             IN  RequestAnimationFrame(
                     ScrollBoth([c EXCEPT !.height = c.containerHeight], targetScrollTop),
                     [fn |-> "finalCheck", target |-> targetScrollTop])

\* a callback of requestAnimationFrame
RunFrame(c, f) ==
    IF Destroyed(c)
    THEN CASE f.fn = "rafScheduled" -> [c EXCEPT !.scheduled = FALSE]
           [] f.fn = "initCheck" -> [c EXCEPT !.initialized = TRUE]
           [] OTHER -> c
    ELSE
    CASE f.fn = "rafScheduled" ->
             IF c.callback = "commitScroll"
             THEN [commitScroll([c EXCEPT !.scheduled = FALSE]) EXCEPT !.callback = "null"]
             ELSE [c EXCEPT !.scheduled = FALSE]
      [] f.fn = "scrollToBottom" -> ScrollBoth(c, f.target)
      [] f.fn = "initCheck" ->
             [(IF ~StrictEquals(c.viewportScrollTop, f.target)
               THEN ScrollBoth(c, f.target) ELSE c) EXCEPT !.initialized = TRUE]
      [] f.fn = "finalCheck" ->
             [(IF ~StrictEquals(c.viewportScrollTop, c.scrollTop)
               THEN ScrollBoth(c, f.target) ELSE c) EXCEPT !.initialized = TRUE]

\* the most effects and continuations that run after one callback
FlushFuel == 12

\* The effects whose signals changed run, first declared first, each against the state s
\* it ran in last (s1 the measurement effect, s2 the height-change effect, s4 the
\* bottomToTop initialization, s5 the chunk effect), then the continuations of tick().
RECURSIVE Flush(_, _, _, _, _, _)
Flush(s1, s2, s4, s5, c0, fuel) ==
    The({ IF fuel = 0 THEN [c EXCEPT !.overflow = TRUE]
          ELSE IF measureEffectStale(s1, c)
          THEN The({ Flush(e, s2, s4, s5, e, fuel - 1) : e \in {measureEffect(c)} })
          ELSE IF heightChangeEffectStale(s2, c)
          THEN The({ Flush(s1, e, s4, s5, e, fuel - 1) : e \in {heightChangeEffect(c)} })
          ELSE IF bottomToTopInitEffectStale(s4, c)
          THEN The({ Flush(s1, s2, e, s5, e, fuel - 1) : e \in {bottomToTopInitEffect(c)} })
          ELSE IF chunkEffectStale(s5, c)
          THEN The({ Flush(s1, s2, s4, e, e, fuel - 1) : e \in {chunkEffect(c)} })
          ELSE IF c.ticks # <<>>
          THEN Flush(s1, s2, s4, s5, RunTick([c EXCEPT !.ticks = Tail(@)], Head(c.ticks)),
                     fuel - 1)
          ELSE c
        : c \in {Render(c0)} })

\* the component after the callback that took it from pre to post, when the page is at
\* rest again
Settle(pre, post) ==
    IF Destroyed(post) THEN post
    ELSE The({ Layout(c) : c \in {Flush(pre, pre, pre, pre, post, FlushFuel)} })

\* the callbacks of a frame run one after the other, each followed by its effects
RECURSIVE RunFrames(_, _)
RunFrames(c, fs) ==
    IF fs = <<>> THEN c
    ELSE The({ RunFrames(d, Tail(fs)) : d \in {Settle(c, RunFrame(c, Head(fs)))} })

-----------------------------------------------------------------------------
(* Harness of the range calculator: one call of one of the three pure     *)
(* functions on arguments drawn from the bounded sets, or on the          *)
(* arguments of the unit tests (virtualList.test.ts:14-87).               *)

RangeCall(fn, scrollTop, viewportHeight, itemHeight, totalItems, bufferSize, mode, visibleStart, visibleEnd) ==
    [fn |-> fn, scrollTop |-> scrollTop, viewportHeight |-> viewportHeight,
     itemHeight |-> itemHeight, gridColumns |-> DefaultGridColumns,
     totalItems |-> totalItems, bufferSize |-> bufferSize, mode |-> mode,
     visibleStart |-> visibleStart, visibleEnd |-> visibleEnd]

VisibleRangeArgs ==
    { RangeCall("calculateVisibleRange", s, v, h, t, b, m, 0, 0) :
        s \in 0..MaxScrollTop, v \in 0..MaxViewport, h \in (-MaxNeg)..MaxItemHeight,
        t \in 0..MaxItems, b \in 0..MaxBuffer, m \in Modes }

ScrollPositionArgs ==
    { RangeCall("calculateScrollPosition", 0, v, h, t, 0, "topToBottom", 0, 0) :
        v \in 0..MaxViewport, h \in (-MaxNeg)..MaxItemHeight, t \in (-MaxNeg)..MaxItems }

TransformYArgs ==
    { RangeCall("calculateTransformY", 0, 0, h, t, 0, m, vs, ve) :
        h \in (-MaxNeg)..MaxItemHeight, t \in 0..MaxItems, m \in Modes,
        vs \in 0..MaxItems, ve \in 0..MaxItems }

TestArgs ==
    { RangeCall("calculateVisibleRange", 100, 300, 30, 100, 2, m, 0, 0) : m \in Modes }
    \cup { RangeCall("calculateVisibleRange", 0, 300, 30, 10, 5, "topToBottom", 0, 0) }
    \cup { RangeCall("calculateScrollPosition", 0, 300, 30, t, 0, "topToBottom", 0, 0) :
             t \in {0, 5, 100} }
    \cup { RangeCall("calculateTransformY", 0, 0, 30, 100, 0, m, 5, 20) : m \in Modes }

RangeInit ==
    /\ args \in VisibleRangeArgs \cup ScrollPositionArgs \cup TransformYArgs \cup TestArgs
    /\ ret = <<>>
    /\ called = "none"
    /\ Idle

CallCalculateVisibleRange ==
    /\ called = "none"
    /\ args.fn = "calculateVisibleRange"
    /\ ret' = calculateVisibleRange(Num(args.scrollTop), Num(args.viewportHeight),
                                    Num(args.itemHeight), Num(args.gridColumns),
                                    Num(args.totalItems), Num(args.bufferSize), args.mode)
    /\ called' = "calculateVisibleRange"
    /\ UNCHANGED <<args, idleVars>>

CallCalculateScrollPosition ==
    /\ called = "none"
    /\ args.fn = "calculateScrollPosition"
    /\ ret' = calculateScrollPosition(Num(args.totalItems), Num(args.itemHeight),
                                      Num(args.viewportHeight), Num(args.gridColumns))
    /\ called' = "calculateScrollPosition"
    /\ UNCHANGED <<args, idleVars>>

CallCalculateTransformY ==
    /\ called = "none"
    /\ args.fn = "calculateTransformY"
    /\ ret' = calculateTransformY(args.mode, Num(args.totalItems), Num(args.visibleEnd),
                                  Num(args.visibleStart), Num(args.itemHeight),
                                  Num(args.gridColumns))
    /\ called' = "calculateTransformY"
    /\ UNCHANGED <<args, idleVars>>

RangeNext ==
    \/ CallCalculateVisibleRange
    \/ CallCalculateScrollPosition
    \/ CallCalculateTransformY

SpecRange == RangeInit /\ [][RangeNext]_vars

-----------------------------------------------------------------------------
(* Claims about the range calculator (checked under SpecRange)             *)

MaxInt(a, b) == IF a < b THEN b ELSE a

MinInt(a, b) == IF a < b THEN a ELSE b

\* ceil(a / b) of integers, b > 0
CeilDiv(a, b) == -((-a) \div b)

RangeCalled == called = "calculateVisibleRange" /\ args.gridColumns = 1

\* the range is a pair of integers with 0 <= start <= end <= totalItems
RangeWithin(r, totalItems) ==
    /\ IsInteger(r.start) /\ IsInteger(r.end)
    /\ 0 <= r.start.n /\ r.start.n <= r.end.n /\ r.end.n <= totalItems

\* C1: for totalItems >= 0, itemHeight > 0, viewportHeight >= 0, bufferSize >= 0,
\* every scrollTop >= 0 (also beyond totalItems x itemHeight) and both modes the
\* range returned by calculateVisibleRange satisfies 0 <= start <= end <= totalItems;
\* totalItems = 0 gives {0, 0}; a buffer larger than the collection gives [0, totalItems].
C1_RangeWithinBounds ==
    (RangeCalled /\ args.itemHeight > 0) =>
        /\ RangeWithin(ret, args.totalItems)
        /\ args.totalItems = 0 => ret = [start |-> Num(0), end |-> Num(0)]
        /\ args.bufferSize > args.totalItems =>
               ret = [start |-> Num(0), end |-> Num(args.totalItems)]

\* the interval the specification gives for calculateVisibleRange
ReferenceRange(scrollTop, viewportHeight, itemHeight, totalItems, bufferSize, mode) ==
    LET rawStart == scrollTop \div itemHeight
        visibleCount == CeilDiv(viewportHeight, itemHeight) + 1
        rawEnd == rawStart + visibleCount
        bottomIndex == totalItems - rawStart
    IN  IF mode = "topToBottom"
        THEN [start |-> Num(MaxInt(0, rawStart - bufferSize)),
              end |-> Num(MinInt(totalItems, rawEnd + bufferSize))]
        ELSE [start |-> Num(MaxInt(0, bottomIndex - visibleCount - bufferSize)),
              end |-> Num(MinInt(totalItems, bottomIndex + bufferSize))]

\* C2: with gridColumns = 1 and bufferSize >= 0, calculateVisibleRange returns exactly
\* the reference interval of the specification, in both modes.
C2_ReferenceInterval ==
    (RangeCalled /\ args.itemHeight > 0) =>
        ret = ReferenceRange(args.scrollTop, args.viewportHeight, args.itemHeight,
                             args.totalItems, args.bufferSize, args.mode)

\* scrollTop 100, viewport 300, itemHeight 30, 100 items, buffer 2: {1,16} forward
\* and {84,99} reverse have been returned
C2_Witness ==
    /\ RangeCalled
    /\ args.scrollTop = 100 /\ args.viewportHeight = 300 /\ args.itemHeight = 30
    /\ args.totalItems = 100 /\ args.bufferSize = 2
    /\ \/ args.mode = "topToBottom" /\ ret = [start |-> Num(1), end |-> Num(16)]
       \/ args.mode = "bottomToTop" /\ ret = [start |-> Num(84), end |-> Num(99)]

ScrollPositionCalled == called = "calculateScrollPosition" /\ args.gridColumns = 1

TransformYCalled == called = "calculateTransformY" /\ args.gridColumns = 1

\* C5: calculateTransformY returns visibleStart x itemHeight in topToBottom mode and
\* (totalItems - visibleEnd) x itemHeight in bottomToTop mode; it is >= 0 when
\* 0 <= visibleStart <= visibleEnd <= totalItems and itemHeight >= 0.
C5_TransformY ==
    TransformYCalled =>
        /\ args.mode = "topToBottom" => ret = Num(args.visibleStart * args.itemHeight)
        /\ args.mode = "bottomToTop" =>
               ret = Num((args.totalItems - args.visibleEnd) * args.itemHeight)
        /\ (/\ 0 <= args.visibleStart /\ args.visibleStart <= args.visibleEnd
            /\ args.visibleEnd <= args.totalItems /\ args.itemHeight >= 0) =>
               (IsInteger(ret) /\ ret.n >= 0)

\* bottomToTop, 100 items, range [5, 20), height 30 gave 2400
C5_Witness ==
    /\ TransformYCalled
    /\ args.mode = "bottomToTop" /\ args.totalItems = 100 /\ args.visibleEnd = 20
    /\ args.visibleStart = 5 /\ args.itemHeight = 30
    /\ ret = Num(2400)

\* the arguments are a degenerate configuration
DegenerateArgs == args.itemHeight <= 0 \/ args.viewportHeight = 0 \/ args.totalItems = 0

\* C22: for a degenerate configuration (itemHeight zero or negative, viewportHeight
\* zero, or totalItems zero) calculateVisibleRange returns a range of integers with
\* 0 <= start <= end <= totalItems, and calculateTransformY (for a range within the
\* list) and calculateScrollPosition return a finite number that is not negative.
C22_DegenerateInputsSafe ==
    (DegenerateArgs /\ args.totalItems >= 0 /\ args.gridColumns = 1) =>
        /\ called = "calculateVisibleRange" => RangeWithin(ret, args.totalItems)
        /\ called = "calculateScrollPosition" =>
               (NumberIsFinite(ret) /\ Le(Num(0), ret))
        /\ (/\ called = "calculateTransformY"
            /\ 0 <= args.visibleStart /\ args.visibleStart <= args.visibleEnd
            /\ args.visibleEnd <= args.totalItems) =>
               (NumberIsFinite(ret) /\ Le(Num(0), ret))

\* the largest number of items a range holds: the rows of the viewport, one more, and
\* the buffer on both sides
RenderedBound(viewportHeight, itemHeight, bufferSize) ==
    CeilDiv(viewportHeight, itemHeight) + 1 + 2 * bufferSize

\* C27: for totalItems >= 0, itemHeight > 0, viewportHeight >= 0, bufferSize >= 0,
\* scrollTop >= 0 and both modes (gridColumns = 1) the range of calculateVisibleRange
\* holds at most ceil(viewportHeight / itemHeight) + 1 + 2 x bufferSize items, whatever
\* totalItems is.
C27_RenderedCountBounded ==
    (/\ RangeCalled /\ args.itemHeight > 0 /\ args.totalItems >= 0
     /\ args.viewportHeight >= 0 /\ args.bufferSize >= 0 /\ args.scrollTop >= 0) =>
        /\ IsInteger(ret.start) /\ IsInteger(ret.end)
        /\ ret.end.n - ret.start.n
               <= RenderedBound(args.viewportHeight, args.itemHeight, args.bufferSize)

\* a range of a long list that holds exactly as many items as the bound allows, with a
\* buffer and away from both ends of the list
C27_Witness ==
    /\ RangeCalled /\ args.itemHeight > 0 /\ args.bufferSize > 0 /\ args.scrollTop > 0
    /\ Gt(ret.start, Num(0)) /\ Lt(ret.end, Num(args.totalItems))
    /\ ret.end.n - ret.start.n
           = RenderedBound(args.viewportHeight, args.itemHeight, args.bufferSize)

\* the arguments are valid and scrollTop is an offset the viewport can have
ScrollableArgs ==
    /\ RangeCalled /\ args.itemHeight > 0 /\ args.totalItems >= 0
    /\ args.viewportHeight >= 0 /\ args.bufferSize >= 0 /\ args.scrollTop >= 0
    /\ Le(Num(args.scrollTop),
          calculateScrollPosition(Num(args.totalItems), Num(args.itemHeight),
                                  Num(args.viewportHeight), Num(args.gridColumns)))

\* the offset of the rendered block for the range returned
BlockTop ==
    calculateTransformY(args.mode, Num(args.totalItems), ret.end, ret.start,
                        Num(args.itemHeight), Num(args.gridColumns))

\* C33: with a uniform item height (gridColumns = 1), valid arguments and
\* 0 <= scrollTop <= calculateScrollPosition(totalItems, itemHeight, viewportHeight), the
\* pixels of the rendered block, from calculateTransformY(range) to
\* calculateTransformY(range) + (end - start) x itemHeight, contain the viewport
\* [scrollTop, scrollTop + viewportHeight) clipped to the content
\* [0, totalItems x itemHeight), in both modes; in bottomToTop mode at the largest scroll
\* offset the range starts at index 0.
C33_BlockCoversViewport ==
    ScrollableArgs =>
        LET content == args.totalItems * args.itemHeight
            lo == MinInt(args.scrollTop, content)
            hi == MinInt(args.scrollTop + args.viewportHeight, content)
            bottom == Add(BlockTop, Mul(Sub(ret.end, ret.start), Num(args.itemHeight)))
        IN  /\ lo < hi => (Le(BlockTop, Num(lo)) /\ Le(Num(hi), bottom))
            /\ (/\ args.mode = "bottomToTop"
                /\ Num(args.scrollTop) =
                       calculateScrollPosition(Num(args.totalItems), Num(args.itemHeight),
                                               Num(args.viewportHeight),
                                               Num(args.gridColumns)))
                   => ret.start = Num(0)

\* a bottomToTop list scrolled to its largest offset, which is not 0: the range starts
\* at index 0, does not hold every item, and the block is moved down to the viewport
C33_Witness ==
    /\ ScrollableArgs /\ args.mode = "bottomToTop" /\ args.scrollTop > 0
    /\ args.viewportHeight > 0
    /\ Num(args.scrollTop) =
           calculateScrollPosition(Num(args.totalItems), Num(args.itemHeight),
                                   Num(args.viewportHeight), Num(args.gridColumns))
    /\ ret.start = Num(0) /\ Lt(ret.end, Num(args.totalItems))
    /\ Gt(BlockTop, Num(0))

-----------------------------------------------------------------------------
(* Harness of the block-sum index: a table is built from a cache and an    *)
(* estimate, or an offset is looked up with the table built from the same  *)
(* arguments (as in the example of virtualList.ts:328-329) or without one. *)

\* measured heights a cache may hold, and estimates (40.5 is a mean of two heights)
CachedHeights == {Num(30), Frac(101, 2)}

Estimates == {Num(40), Frac(81, 2)}

\* the keys of the indices in S
Keys(S) == { Num(i) : i \in S }

\* every cache over a subset of the indices 0..n-1
HeightCaches(n) ==
    UNION { [D -> CachedHeights] : D \in SUBSET Keys(0..(n - 1)) }

BlockArgs ==
    { [fn |-> f, heightCache |-> c, calculatedItemHeight |-> e, totalItems |-> t,
       blockSize |-> b, idx |-> i] :
        f \in {"buildBlockSums", "getScrollOffsetForIndex", "getScrollOffsetForIndexDirect"},
        c \in HeightCaches(MaxBlockItems), e \in Estimates, t \in 0..MaxBlockItems,
        b \in 1..MaxBlockSize, i \in (-1)..MaxBlockItems }

BlockInit ==
    /\ args \in { a \in BlockArgs :
                    /\ a.idx <= a.totalItems
                    /\ a.fn = "buildBlockSums" => a.idx = 0 }
    /\ ret = <<>>
    /\ called = "none"
    /\ Idle

CallBuildBlockSums ==
    /\ called = "none"
    /\ args.fn = "buildBlockSums"
    /\ ret' = buildBlockSums(args.heightCache, args.calculatedItemHeight,
                             args.totalItems, args.blockSize)
    /\ called' = "buildBlockSums"
    /\ UNCHANGED <<args, idleVars>>

\* const blockSums = buildBlockSums(...); getScrollOffsetForIndex(..., idx, blockSums, blockSize)
CallGetScrollOffsetForIndex ==
    /\ called = "none"
    /\ args.fn = "getScrollOffsetForIndex"
    /\ LET blockSums == buildBlockSums(args.heightCache, args.calculatedItemHeight,
                                       args.totalItems, args.blockSize)
       IN  ret' = getScrollOffsetForIndex(args.heightCache, args.calculatedItemHeight,
                                          args.idx, <<blockSums>>, args.blockSize)
    /\ called' = "getScrollOffsetForIndex"
    /\ UNCHANGED <<args, idleVars>>

\* getScrollOffsetForIndex(heightCache, calculatedItemHeight, idx)
CallGetScrollOffsetForIndexDirect ==
    /\ called = "none"
    /\ args.fn = "getScrollOffsetForIndexDirect"
    /\ ret' = getScrollOffsetForIndex(args.heightCache, args.calculatedItemHeight,
                                      args.idx, <<>>, args.blockSize)
    /\ called' = "getScrollOffsetForIndexDirect"
    /\ UNCHANGED <<args, idleVars>>

BlockNext ==
    \/ CallBuildBlockSums
    \/ CallGetScrollOffsetForIndex
    \/ CallGetScrollOffsetForIndexDirect

SpecBlock == BlockInit /\ [][BlockNext]_vars

-----------------------------------------------------------------------------
(* Claims about the block-sum index (checked under SpecBlock)              *)

\* the sum of heightCache[i] ?? estimate over 0 <= i < n
RECURSIVE PrefixSum(_, _, _)
PrefixSum(heightCache, estimate, n) ==
    IF n <= 0 THEN Num(0)
    ELSE Add(PrefixSum(heightCache, estimate, n - 1),
             IF Num(n - 1) \in DOMAIN heightCache THEN heightCache[Num(n - 1)]
                                                   ELSE estimate)

\* C6: for every cache, estimate, totalItems >= 0, blockSize >= 1 and idx <= totalItems
\* (idx <= 0 gives 0), getScrollOffsetForIndex with the table built by buildBlockSums
\* from the same arguments returns what it returns without a table: the direct sum of
\* heightCache[i] ?? estimate over i < idx.
C6_TableEqualsDirect ==
    /\ called = "getScrollOffsetForIndex" =>
           /\ ret = getScrollOffsetForIndex(args.heightCache, args.calculatedItemHeight,
                                            args.idx, <<>>, args.blockSize)
           /\ ret = PrefixSum(args.heightCache, args.calculatedItemHeight, args.idx)
           /\ args.idx <= 0 => ret = Num(0)
    /\ called = "getScrollOffsetForIndexDirect" =>
           ret = PrefixSum(args.heightCache, args.calculatedItemHeight, args.idx)

\* a lookup through the table in a later block, with a measured height before and
\* inside the block of idx, has returned a sum that differs from idx x estimate
C6_Witness ==
    /\ called = "getScrollOffsetForIndex"
    /\ args.blockSize = 2 /\ args.idx = 3 /\ args.totalItems = 4
    /\ DOMAIN args.heightCache = Keys({0, 2})
    /\ ret # Mul(Num(args.idx), args.calculatedItemHeight)

\* C7: buildBlockSums returns exactly ceil(totalItems / blockSize) entries, entry k
\* being the sum of heightCache[i] ?? estimate over i < min((k+1) x blockSize,
\* totalItems): nothing for totalItems = 0, one entry (the full sum) when
\* 0 < totalItems < blockSize, no trailing entry when blockSize divides totalItems.
C7_BlockSumsShape ==
    called = "buildBlockSums" =>
        /\ Len(ret) = CeilDiv(args.totalItems, args.blockSize)
        /\ \A k \in 0..(Len(ret) - 1) :
               ret[k + 1] = PrefixSum(args.heightCache, args.calculatedItemHeight,
                                      MinInt((k + 1) * args.blockSize, args.totalItems))
        /\ args.totalItems = 0 => ret = <<>>
        /\ (0 < args.totalItems /\ args.totalItems < args.blockSize) =>
               ret = <<PrefixSum(args.heightCache, args.calculatedItemHeight,
                                 args.totalItems)>>

\* blockSize divides totalItems: two complete blocks gave two entries
C7_Witness ==
    /\ called = "buildBlockSums"
    /\ args.totalItems = 4 /\ args.blockSize = 2
    /\ DOMAIN args.heightCache = Keys({1, 3})
    /\ Len(ret) = 2

-----------------------------------------------------------------------------
(* Harness of processChunked: one call on an array of length args.length, *)
(* with callbacks that record their calls. ret is the state of the        *)
(* promise the call returned. The continuation after an await is a        *)
(* microtask: it runs before any timer fires.                              *)

ChunkInit ==
    /\ args \in { [fn |-> "processChunked", length |-> l, chunkSize |-> c] :
                    l \in 0..MaxChunkLength, c \in 1..MaxChunkSize }
    /\ ret = "none"
    /\ called = "none"
    /\ Idle

\* processChunked(items, chunkSize, onProgress, onComplete), up to its await
CallProcessChunked ==
    /\ called = "none"
    /\ args.fn = "processChunked"
    /\ called' = "processChunked"
    /\ IF args.length = 0
       THEN /\ callLog' = Append(callLog, OnComplete)
            /\ ret' = "resolved"
            /\ UNCHANGED timers
       ELSE /\ callLog' = callLog \o processChunkCalls(0, args.chunkSize, args.length)
            /\ timers' = timers \o processChunkTimers(0, args.chunkSize, args.length)
            /\ ret' = "awaiting"
    /\ UNCHANGED <<args, component>>

\* the continuation of `await processChunk(0)`: the promise resolves
ProcessChunkedResumes ==
    /\ called = "processChunked"
    /\ ret = "awaiting"
    /\ ret' = "resolved"
    /\ UNCHANGED <<args, called, callLog, timers, component>>

\* a zero-delay timer fires: processChunk(endIdx)
ChunkTimerFires ==
    /\ called = "processChunked"
    /\ ret # "awaiting"
    /\ timers # <<>>
    /\ LET t == Head(timers)
       IN  /\ callLog' = callLog \o processChunkCalls(t.startIdx, args.chunkSize, args.length)
           /\ timers' = Tail(timers) \o processChunkTimers(t.startIdx, args.chunkSize,
                                                           args.length)
    /\ UNCHANGED <<args, ret, called, component>>

ChunkNext ==
    \/ CallProcessChunked
    \/ ProcessChunkedResumes
    \/ ChunkTimerFires

SpecChunk == ChunkInit /\ [][ChunkNext]_vars

-----------------------------------------------------------------------------
(* Claims about processChunked (checked under SpecChunk)                   *)

ProgressCalls == SelectSeq(callLog, LAMBDA e : e.cb = "onProgress")

CompleteCalls == SelectSeq(callLog, LAMBDA e : e.cb = "onComplete")

\* C8: processChunked on an array of length L with chunkSize C >= 1 calls onProgress
\* exactly ceil(L/C) times, the k-th call with min(k x C, L); onComplete is called
\* exactly once, after the last onProgress; for L = 0 there is no onProgress call and
\* onComplete is called at once.
C8_ChunkCallbacks ==
    LET expected == CeilDiv(args.length, args.chunkSize)
        finished == called = "processChunked" /\ timers = <<>>
    IN  /\ Len(ProgressCalls) <= expected
        /\ \A k \in 1..Len(ProgressCalls) :
               ProgressCalls[k].arg = MinInt(k * args.chunkSize, args.length)
        /\ Len(CompleteCalls) <= 1
        /\ Len(CompleteCalls) = 1 =>
               /\ callLog[Len(callLog)] = OnComplete
               /\ Len(ProgressCalls) = expected
        /\ finished => (Len(CompleteCalls) = 1 /\ Len(ProgressCalls) = expected)
        /\ (called = "processChunked" /\ args.length = 0) => callLog = <<OnComplete>>

\* seven items in chunks of three: onProgress(3), onProgress(6), onProgress(7), onComplete()
C8_Witness ==
    /\ args.length = 7 /\ args.chunkSize = 3
    /\ callLog = <<OnProgress(3), OnProgress(6), OnProgress(7), OnComplete>>

\* C25: the promise processChunked returned is resolved only when all chunks have been
\* processed: onProgress has been called with the length of the array and onComplete
\* has been called (for an empty array onComplete alone).
C25_ResolvedAfterAllChunks ==
    (called = "processChunked" /\ ret = "resolved") =>
        /\ Len(CompleteCalls) = 1
        /\ args.length > 0 =>
               /\ ProgressCalls # <<>>
               /\ ProgressCalls[Len(ProgressCalls)].arg = args.length

\* C31: processChunked yields between chunks: the first onProgress is called inside the
\* call of processChunked, every later one in the callback of a zero-delay timer, one
\* chunk for each callback, and at most one chunk continuation is pending at any time,
\* so that other events can run between two consecutive onProgress calls.
C31_YieldsBetweenChunks ==
    [][/\ Len(timers') <= 1
       /\ Len(ProgressCalls') <= Len(ProgressCalls) + 1
       /\ (CallProcessChunked /\ args.length > 0) =>
              ProgressCalls' = <<OnProgress(MinInt(args.chunkSize, args.length))>>
       /\ (called = "processChunked" /\ Len(ProgressCalls') > Len(ProgressCalls)) =>
              /\ timers = <<[fn |-> "processChunk",
                             startIdx |-> ProgressCalls[Len(ProgressCalls)].arg]>>
              /\ ChunkTimerFires]_vars

\* seven items in chunks of three: two chunks are done, the second of them in a timer
\* callback, and the continuation for the third is the one pending timer
C31_Witness ==
    /\ called = "processChunked"
    /\ args.length = 7 /\ args.chunkSize = 3
    /\ callLog = <<OnProgress(3), OnProgress(6)>>
    /\ timers = <<[fn |-> "processChunk", startIdx |-> 6]>>

-----------------------------------------------------------------------------
(* Harness of processChunked with any integer chunkSize on a non-empty     *)
(* array, under fair firing of the timers. A chunk size of 0 or below      *)
(* makes the behaviour infinite, so the state is kept finite: callLog      *)
(* keeps the last MaxChunkLog callbacks only, and a startIdx below         *)
(* -MaxChunkLength is kept as -MaxChunkLength (every startIdx below 0      *)
(* gives endIdx < items.length when chunkSize <= 0). Each timer set by a   *)
(* continuation has a handle other than that of the timer that ran.        *)

\* the callbacks callLog keeps
MaxChunkLog == 3

LastOf(log, n) == IF Len(log) <= n THEN log ELSE SubSeq(log, Len(log) - n + 1, Len(log))

ChunkFairInit ==
    /\ args \in { [fn |-> "processChunked", length |-> l, chunkSize |-> c] :
                    l \in 1..MaxChunkLength, c \in (-MaxNeg)..MaxChunkSize }
    /\ ret = "none"
    /\ called = "none"
    /\ Idle

\* a zero-delay timer fires: processChunk(endIdx)
ChunkTimerFiresFair ==
    /\ called = "processChunked"
    /\ ret # "awaiting"
    /\ timers # <<>>
    /\ LET t == Head(timers)
           set == processChunkTimers(t.startIdx, args.chunkSize, args.length)
       IN  /\ callLog' = LastOf(callLog \o processChunkCalls(t.startIdx, args.chunkSize,
                                                             args.length), MaxChunkLog)
           /\ timers' = Tail(timers) \o
                  [i \in 1..Len(set) |->
                      [fn |-> set[i].fn,
                       startIdx |-> IF set[i].startIdx < -MaxChunkLength
                                    THEN -MaxChunkLength ELSE set[i].startIdx,
                       handle |-> IF "handle" \in DOMAIN t THEN 1 - t.handle ELSE 1]]
    /\ UNCHANGED <<args, ret, called, component>>

ChunkFairNext ==
    \/ CallProcessChunked
    \/ ProcessChunkedResumes
    \/ ChunkTimerFiresFair

SpecChunkFair ==
    /\ ChunkFairInit
    /\ [][ChunkFairNext]_vars
    /\ WF_vars(CallProcessChunked)
    /\ WF_vars(ProcessChunkedResumes)
    /\ WF_vars(ChunkTimerFiresFair)

-----------------------------------------------------------------------------
(* Claims about processChunked with any chunkSize (checked under           *)
(* SpecChunkFair)                                                          *)

\* C37: processChunked terminates for every non-empty input and every integer
\* chunkSize, 0 and negative values included: under fair firing of the timers onComplete
\* is eventually called and no chunk continuation remains scheduled afterwards.
C37_ChunkedTerminates ==
    <>[](CompleteCalls # <<>> /\ timers = <<>>)

-----------------------------------------------------------------------------
(* Harness of calculateAverageHeight: a measurement pass over the slots   *)
(* args.itemElements of a range starting at args.start, and the same pass *)
(* once more on the cache and the height the first one returned. ret is   *)
(* the sequence of the results of the passes.                             *)

\* what a slot can hold: nothing, an element of height 30 or 50, an element
\* reporting NaN, Infinity, 0 or -10, an element whose accessor throws
\* (virtualList.test.ts:143-277)
ElementKinds ==
    {NullElement, ThrowingElement} \cup
    { Element(h) : h \in {Num(30), Num(50), NaN, Infinity, Num(0), Num(-10)} }

ElementArrays == UNION { [1..n -> ElementKinds] : n \in 0..MaxElements }

\* the caches the program can hold: finite positive heights only
LedgerCaches ==
    UNION { [D -> {Num(40)}] : D \in SUBSET Keys(0..(MaxElements + MaxStart - 1)) }

AverageInit ==
    /\ args \in { [fn |-> "calculateAverageHeight", itemElements |-> els, start |-> st,
                   heightCache |-> c, currentItemHeight |-> h] :
                    els \in ElementArrays, st \in 0..MaxStart, c \in LedgerCaches,
                    h \in {Num(40), Num(45)} }
    /\ ret = <<>>
    /\ called = "none"
    /\ Idle

CallCalculateAverageHeight ==
    /\ called = "none"
    /\ args.fn = "calculateAverageHeight"
    /\ ret' = <<calculateAverageHeight(args.itemElements, Num(args.start), args.heightCache,
                                       args.currentItemHeight)>>
    /\ called' = "calculateAverageHeight"
    /\ UNCHANGED <<args, idleVars>>

\* the same elements are measured again, with the cache and the height just returned
CallCalculateAverageHeightAgain ==
    /\ called = "calculateAverageHeight"
    /\ Len(ret) = 1
    /\ ~ret[1].threw
    /\ ret' = Append(ret, calculateAverageHeight(args.itemElements, Num(args.start),
                                                 ret[1].updatedHeightCache,
                                                 ret[1].newHeight))
    /\ UNCHANGED <<args, called, idleVars>>

AverageNext ==
    \/ CallCalculateAverageHeight
    \/ CallCalculateAverageHeightAgain

SpecAverage == AverageInit /\ [][AverageNext]_vars

-----------------------------------------------------------------------------
(* Claims about calculateAverageHeight (checked under SpecAverage)         *)

AverageCalled == called = "calculateAverageHeight" /\ Len(ret) >= 1

\* a finite height > 0
ValidHeight(h) == h.d > 0 /\ h.n > 0

\* the slots that hold an element, in order: the i-th (from 0) belongs to index start + i
PresentSlots == SelectSeq(args.itemElements, LAMBDA el : el.present)

\* the element of PresentSlots at position i reports no valid height
InvalidMeasurement(i) ==
    PresentSlots[i + 1].throws \/ ~ValidHeight(PresentSlots[i + 1].height)

\* the mean of a cache of valid heights, as a rational
RECURSIVE SumOver(_, _)
SumOver(f, S) ==
    IF S = {} THEN Num(0)
    ELSE LET k == CHOOSE x \in S : TRUE IN Add(f[k], SumOver(f, S \ {k}))

MeanOf(heightCache) ==
    Frac(SumOver(heightCache, DOMAIN heightCache).n,
         SumOver(heightCache, DOMAIN heightCache).d * Cardinality(DOMAIN heightCache))

\* C9: calculateAverageHeight never throws and never stores an invalid measurement: a
\* height that is NaN, infinite, zero or negative, or whose accessor throws, leaves the
\* cache entry of its index absent, and the returned average is the mean of valid
\* heights only (or the current height).
C9_InvalidDiscarded ==
    AverageCalled =>
        \A p \in 1..Len(ret) :
            /\ ~ret[p].threw
            /\ \A k \in DOMAIN ret[p].updatedHeightCache :
                   ValidHeight(ret[p].updatedHeightCache[k])
            /\ \A i \in 0..(Len(PresentSlots) - 1) :
                   (InvalidMeasurement(i) /\ Num(args.start + i) \notin DOMAIN args.heightCache)
                       => Num(args.start + i) \notin DOMAIN ret[p].updatedHeightCache
            /\ ValidHeight(ret[p].newHeight)
            /\ ret[p].newHeight =
                   IF Len(PresentSlots) = 0 \/ DOMAIN ret[p].updatedHeightCache = {}
                   THEN (IF p = 1 THEN args.currentItemHeight ELSE ret[1].newHeight)
                   ELSE MeanOf(ret[p].updatedHeightCache)

\* a pass over [30, NaN] from an empty cache stored 30 for the first index only
\* and returned 30
C9_Witness ==
    /\ AverageCalled
    /\ args.itemElements = <<Element(Num(30)), Element(NaN)>>
    /\ args.heightCache = << >>
    /\ DOMAIN ret[1].updatedHeightCache = {Num(args.start)}
    /\ ret[1].newHeight = Num(30)

\* C10: first measurement wins: an index present in the input cache keeps its value
\* whatever its element measures now, an entry is added only for an absent index (with
\* the height its element reports), and running the same pass twice gives the same
\* cache as running it once.
C10_FirstMeasurementWins ==
    AverageCalled =>
        /\ \A k \in DOMAIN args.heightCache :
               /\ k \in DOMAIN ret[1].updatedHeightCache
               /\ ret[1].updatedHeightCache[k] = args.heightCache[k]
        /\ \A k \in (DOMAIN ret[1].updatedHeightCache) \ (DOMAIN args.heightCache) :
               /\ IsInteger(k)
               /\ k.n - args.start \in 0..(Len(PresentSlots) - 1)
               /\ ret[1].updatedHeightCache[k] = PresentSlots[k.n - args.start + 1].height
        /\ Len(ret) = 2 => ret[2].updatedHeightCache = ret[1].updatedHeightCache

\* two passes over [30, 50] with index start + 1 cached as 40: the cached 40 stayed,
\* 30 was added for index start, and the second pass changed nothing
C10_Witness ==
    /\ AverageCalled
    /\ Len(ret) = 2
    /\ args.itemElements = <<Element(Num(30)), Element(Num(50))>>
    /\ DOMAIN args.heightCache = {Num(args.start + 1)}
    /\ ret[2].updatedHeightCache =
           [k \in Keys({args.start, args.start + 1}) |->
               IF k = Num(args.start) THEN Num(30) ELSE Num(40)]
    /\ ret[2].newHeight = Num(35)

\* C11: the height calculateAverageHeight returns is the arithmetic mean of all valid
\* heights of the updated cache (every cached index, not only those of the current
\* range), and it is the current item height passed in when the updated cache holds
\* no valid height or when no element is present.
C11_MeanOfAllCached ==
    AverageCalled =>
        \A p \in 1..Len(ret) :
            LET cache == ret[p].updatedHeightCache
                valid == { k \in DOMAIN cache : ValidHeight(cache[k]) }
                passed == IF p = 1 THEN args.currentItemHeight ELSE ret[1].newHeight
            IN  IF Len(PresentSlots) = 0 \/ valid = {}
                THEN ret[p].newHeight = passed
                ELSE Mul(ret[p].newHeight, Num(Cardinality(valid))) = SumOver(cache, valid)

\* one element of height 30 measured at index 1 while index 0, outside the range, is
\* cached as 40: the mean 35 counts both
C11_Witness ==
    /\ AverageCalled
    /\ args.start = 1
    /\ args.itemElements = <<Element(Num(30))>>
    /\ args.heightCache = (Num(0) :> Num(40))
    /\ ret[1].updatedHeightCache = (Num(0) :> Num(40)) @@ (Num(1) :> Num(30))
    /\ ret[1].newHeight = Num(35)

-----------------------------------------------------------------------------
(* The mounted component on a page: the user scrolls the viewport, the     *)
(* page dispatches scroll events, runs animation frames and timers and     *)
(* notifies the ResizeObserver, the parent replaces the items.             *)

\* the lengths of the items arrays the parent passes
ItemCounts == {0, 1, 3}

\* the bufferSize props
BufferSizes == {0, 1}

\* the most timers and animation frames pending at once
MaxTimers == 2

MaxFrames == 3

\* how often in all the user scrolls, the container takes another height and the
\* parent replaces the items
MaxEvents == 2

\* the heights the container takes
ContainerHeights == {Num(40), Num(100)}

\* where the user scrolls the viewport to: the top, the bottom, a multiple of the
\* default item height in between
ScrollTargets(c) ==
    { x \in {Num(0), MaxViewportScrollTop(c)}
              \cup { Num(k * DefaultEstimatedItemHeight) : k \in ItemCounts } :
        Le(x, MaxViewportScrollTop(c)) }

Init ==
    /\ args = [fn |-> "component"]
    /\ ret = <<>>
    /\ called = "none"
    /\ callLog = <<>>
    /\ timers = <<>>
    /\ component \in { Constructed(n, m, b, ch) :
                         n \in ItemCounts, m \in Modes, b \in BufferSizes,
                         ch \in ContainerHeights }

\* the step leaves the component c
Step(c) ==
    /\ ~c.overflow
    /\ Len(c.timers) <= MaxTimers
    /\ Len(c.frames) <= MaxFrames
    /\ component' = c
    /\ UNCHANGED <<harnessVars, timers>>

\* the component is mounted: the template renders, the effects and onMount run once in
\* the order of their declaration
Mount ==
    /\ ~component.mounted
    /\ component.resizeObserver = "null"
    /\ \E e1 \in {measureEffect(Render(component))} :
       \E e2 \in {heightChangeEffect(e1)} :
       \E e3 \in {containerHeightEffect(e2)} :
       \E e4 \in {bottomToTopInitEffect(e3)} :
       \E e5 \in {chunkEffect(e4)} :
       \E c \in {Flush(e1, e2, e4, e5, onMount(e5), FlushFuel)} :
           Step(Layout(c))

\* the user scrolls the viewport
UserScrolls ==
    /\ component.mounted
    /\ component.events < MaxEvents
    /\ \E x \in ScrollTargets(component) \ {component.viewportScrollTop} :
           Step([component EXCEPT !.viewportScrollTop = x, !.scrollEvent = TRUE,
                                  !.events = @ + 1])

\* onscroll={handleScroll}
ScrollEvent ==
    /\ component.mounted
    /\ component.scrollEvent
    /\ \E c \in {Settle(component, handleScroll([component EXCEPT !.scrollEvent = FALSE]))} :
           Step(c)

\* the page runs the callbacks of requestAnimationFrame that are pending
AnimationFrame ==
    /\ component.frames # <<>>
    /\ \E c \in {RunFrames([component EXCEPT !.frames = <<>>], component.frames)} :
           Step(c)

\* the container takes another height: the callback of the ResizeObserver
ContainerResizes ==
    /\ component.mounted
    /\ component.events < MaxEvents
    /\ \E h \in ContainerHeights \ {component.containerHeight} :
       \E c \in {Settle(component,
                        updateHeightAndScroll([component EXCEPT !.containerHeight = h,
                                                                !.resizeObserver = "observing",
                                                                !.events = @ + 1],
                                              TRUE))} :
           Step(c)

\* the first notification of the ResizeObserver, after observe()
ResizeObserved ==
    /\ component.resizeObserver = "initial"
    /\ \E c \in {Settle(component,
                        updateHeightAndScroll([component EXCEPT
                                                   !.resizeObserver = "observing"],
                                              TRUE))} :
           Step(c)

\* the timer of calculateAverageHeightDebounced fires
MeasureTimerFires ==
    /\ component.timers # <<>>
    /\ Head(component.timers).fn = "measure"
    /\ \E c \in {Settle(component,
                        measureTimeout([component EXCEPT !.timers = Tail(@)],
                                       Head(component.timers)))} :
           Step(c)

\* the parent passes an items array of another length
ItemsReplaced ==
    /\ component.mounted
    /\ component.events < MaxEvents
    /\ \E n \in ItemCounts \ {component.itemsLength} :
       \E c \in {Settle(component,
                        [component EXCEPT !.itemsLength = n, !.events = @ + 1])} :
           Step(c)

\* the parent removes the component: the cleanup that onMount returned runs, the effects
\* are destroyed and the elements leave the page
Unmount ==
    /\ component.mounted
    /\ component.events < MaxEvents
    /\ Step([component EXCEPT !.mounted = FALSE, !.resizeObserver = "disconnected",
                              !.scrollEvent = FALSE, !.events = @ + 1])

Next ==
    \/ Mount
    \/ Unmount
    \/ UserScrolls
    \/ ScrollEvent
    \/ AnimationFrame
    \/ ContainerResizes
    \/ ResizeObserved
    \/ MeasureTimerFires
    \/ ItemsReplaced

Spec == Init /\ [][Next]_vars

-----------------------------------------------------------------------------
(* Claims about the mounted component (checked under Spec)                 *)

TimerResult ==
    calculateAverageHeight(ItemElements(component), Head(component.timers).visibleRangeStart,
                           Head(component.timers).heightCache,
                           Head(component.timers).lastMeasuredIndex)

PendingScrollFrames(c) == { i \in 1..Len(c.frames) : c.frames[i].fn = "rafScheduled" }

\* C14: in the mounted component scroll sampling is coalesced per animation frame.
\* Whatever the number of scroll events before the next frame, at most one frame callback of the scheduler is pending
\* (and one is pending while isScrolling is set); a scroll event never writes scrollTop,
\* so no intermediate offset is committed; the frame commits the offset the viewport
\* has when the frame runs, and after it scrollTop equals the viewport's offset.
C14_ScrollCoalesced ==
    [][/\ Cardinality(PendingScrollFrames(component')) <= 1
       /\ component'.mounted =>
              /\ component'.scheduled <=> PendingScrollFrames(component') # {}
              /\ component'.isScrolling =>
                     component'.scheduled /\ component'.callback = "commitScroll"
       /\ (ScrollEvent \/ UserScrolls) => component'.scrollTop = component.scrollTop
       /\ (AnimationFrame /\ component.frames = <<[fn |-> "rafScheduled", target |-> NaN]>>
              /\ component.isScrolling /\ component.mounted)
            => /\ component'.scrollTop = component.viewportScrollTop
               /\ component'.scrollTop = component'.viewportScrollTop
               /\ ~component'.isScrolling
               /\ PendingScrollFrames(component') = {}]_vars

\* the viewport was scrolled twice and never resized, and the frame has committed the
\* last offset
C14_Witness ==
    /\ component.mounted /\ component.events = 2 /\ component.frames = <<>>
    /\ component.resizeObserver = "initial"
    /\ ~component.isScrolling /\ ~component.scrollEvent
    /\ component.itemsLength = 3 /\ component.mode = "topToBottom"
    /\ component.containerHeight = Num(40)
    /\ component.scrollTop = Num(80) /\ component.viewportScrollTop = Num(80)

\* the state variables of the script of the component
ScriptState(c) ==
    <<c.scrollTop, c.height, c.calculatedItemHeight, c.initialized, c.isCalculatingHeight,
      c.isScrolling, c.lastMeasuredIndex, c.heightUpdateTimeout, c.heightCache,
      c.processedItems>>

MountEffects(c) ==
    The({ chunkEffect(e4) :
            e4 \in { bottomToTopInitEffect(e3) :
                       e3 \in { containerHeightEffect(e2) :
                                  e2 \in { heightChangeEffect(e1) :
                                             e1 \in {measureEffect(Render(c))} } } } })

\* C17: in bottomToTop mode with a non-empty list, initialized is not true before the
\* scroll offset of the viewport has been set to the bottom target
\* calculateScrollPosition(items.length, estimate, containerHeight): when the effects of
\* the mount have run and initialized is true, the viewport is at that target.
C17_InitializedAfterBottomScroll ==
    [][(Mount /\ component.mode = "bottomToTop" /\ component.itemsLength > 0) =>
          (MountEffects(component).initialized =>
               MountEffects(component).viewportScrollTop =
                   calculateScrollPosition(Num(component.itemsLength),
                                           component.calculatedItemHeight,
                                           component.containerHeight,
                                           Num(DefaultGridColumns)))]_vars

\* max(h, n x e) = h + calculateScrollPosition(n, e, h) for all n, e, h >= 0 within
\* the bounds
ExtentIsHeightPlusScrollPosition ==
    \A n \in 0..MaxItems, e \in 0..MaxItemHeight, h \in 0..MaxViewport :
        MathMax(Num(h), Mul(Num(n), Num(e))) =
            Add(Num(h), calculateScrollPosition(Num(n), Num(e), Num(h),
                                                Num(DefaultGridColumns)))

OnlyInitFrames(c) ==
    /\ c.frames # <<>>
    /\ \A i \in 1..Len(c.frames) : c.frames[i].fn \in {"initCheck", "finalCheck"}

\* C26: in bottomToTop mode, once initialized is true no continuation of the
\* initialization writes the scroll offset of the viewport: none is pending when the
\* effects of the mount have set initialized, and a frame of the initialization that runs
\* with initialized true leaves the offset as it is.
C26_NoInitWriteAfterInitialized ==
    [][/\ (Mount /\ component.mode = "bottomToTop" /\ MountEffects(component).initialized)
            => MountEffects(component).ticks = <<>>
       /\ (/\ AnimationFrame /\ component.mounted /\ component.mode = "bottomToTop"
           /\ component.initialized /\ OnlyInitFrames(component))
            => component'.viewportScrollTop = component.viewportScrollTop]_vars

\* the height-measurement debounce timers that are pending
PendingMeasureTimers(c) == { i \in 1..Len(c.timers) : c.timers[i].fn = "measure" }

BottomFrames(fs) == { i \in 1..Len(fs) : fs[i].fn = "scrollToBottom" }

\* the frames requested in the step: those pending after it, without the ones that were
\* pending before it unless the step ran them
RequestedFrames ==
    IF AnimationFrame THEN component'.frames
    ELSE SubSeq(component'.frames, Len(component.frames) + 1, Len(component'.frames))

\* the estimate, the height or the number of items of d differ from those of c
BottomInputsChanged(c, d) ==
    \/ d.calculatedItemHeight # c.calculatedItemHeight
    \/ d.height # c.height
    \/ d.itemsLength # c.itemsLength

\* the offset of the viewport is further than one estimated item height from the bottom
FarFromBottom(c) ==
    Gt(MathAbs(Sub(c.viewportScrollTop, BottomScrollTop(c))), c.calculatedItemHeight)

\* C38: in bottomToTop mode after initialization, whenever the estimated height, the
\* container height or the item count changes and the offset of the viewport differs
\* from the bottom target max(0, items.length x estimate - height) by more than one
\* estimated item height, a frame is scheduled that sets the offset of the viewport and
\* scrollTop to the bottom target; when the difference is at most one estimated item
\* height no such frame is scheduled.
C38_ReturnsToBottom ==
    [][/\ (/\ component.mounted /\ component'.mounted
           /\ component.initialized /\ component.mode = "bottomToTop"
           /\ BottomInputsChanged(component, component'))
            => IF FarFromBottom(component')
               THEN \E i \in BottomFrames(RequestedFrames) :
                        RequestedFrames[i].target = BottomScrollTop(component')
               ELSE BottomFrames(RequestedFrames) = {}
       /\ (/\ AnimationFrame /\ component.mounted
           /\ Len(component.frames) = 1 /\ BottomFrames(component.frames) = {1})
            => /\ component'.viewportScrollTop = component.frames[1].target
               /\ component'.scrollTop = component.frames[1].target]_vars

-----------------------------------------------------------------------------
(* Harness of the chunked initialization: the component is constructed     *)
(* with more than ChunkThreshold items and mounted, the parent replaces    *)
(* the items array, and the zero-delay timers of processChunked fire in    *)
(* the order they were set (part_003:912-930).                             *)

\* the lengths of the items arrays: two above the threshold, one below
ChunkedItemCounts == {ChunkThreshold + 1, ChunkThreshold + ChunkSize + 1, 3}

ChunkedInit ==
    /\ args = [fn |-> "component"]
    /\ ret = <<>>
    /\ called = "none"
    /\ callLog = <<>>
    /\ timers = <<>>
    /\ component \in { Constructed(n, m, 0, Num(40)) :
                         n \in { k \in ChunkedItemCounts : k > ChunkThreshold },
                         m \in Modes }

\* the chunk continuations that are pending
ChunkTimers(c) == { i \in 1..Len(c.timers) : c.timers[i].fn = "processChunk" }

\* the chunk continuation that was set first
FirstChunkTimer(c) == CHOOSE i \in ChunkTimers(c) : \A j \in ChunkTimers(c) : i <= j

\* the step leaves the component c
ChunkedStep(c) ==
    /\ ~c.overflow
    /\ component' = c
    /\ UNCHANGED <<harnessVars, timers>>

\* the parent passes an items array of another length
ChunkedItemsReplaced ==
    /\ component.mounted
    /\ component.events < MaxEvents
    /\ \E n \in ChunkedItemCounts \ {component.itemsLength} :
       \E c \in {Settle(component,
                        [component EXCEPT !.itemsLength = n, !.events = @ + 1])} :
           ChunkedStep(c)

\* a zero-delay timer of processChunked fires: processChunk(endIdx)
ChunkContinuationFires ==
    /\ component.mounted
    /\ ChunkTimers(component) # {}
    /\ \E i \in {FirstChunkTimer(component)} :
       \E c \in {Settle(component,
                        processChunk([component EXCEPT !.timers =
                                          SubSeq(@, 1, i - 1) \o SubSeq(@, i + 1, Len(@))],
                                     component.timers[i].startIdx,
                                     component.timers[i].length))} :
           ChunkedStep(c)

ChunkedNext ==
    \/ Mount
    \/ ChunkedItemsReplaced
    \/ ChunkContinuationFires

SpecChunked == ChunkedInit /\ [][ChunkedNext]_vars

-----------------------------------------------------------------------------
(* Claims about the chunked initialization (checked under SpecChunked)     *)

\* the chunk continuation that fires next is the last of its chain: it calls onComplete
LastChunkFires ==
    /\ ChunkContinuationFires
    /\ LET t == component.timers[FirstChunkTimer(component)]
       IN  chunkEnd(t.startIdx, ChunkSize, t.length) >= t.length

\* C39: during chunked initialization (items.length > 1000) processedItems never
\* decreases and never exceeds the current items.length, and initialized is set by
\* exactly one completion, also when the items array is replaced while a chunk
\* continuation of the previous array is pending.
C39_ChunkedProgressMonotone ==
    [][(/\ component'.mounted
        /\ component.itemsLength > ChunkThreshold
        /\ component'.itemsLength > ChunkThreshold) =>
          /\ component'.processedItems >= component.processedItems
          /\ component'.processedItems <= component'.itemsLength
          /\ LastChunkFires => ~component.initialized]_vars

-----------------------------------------------------------------------------
(* Harness of createRafScheduler: ret is one scheduler (its variables     *)
(* scheduled and callback, and the frame callbacks it has requested and   *)
(* that have not run yet); it is called with callbacks that record their   *)
(* calls, and the page runs the frames (raf.test.ts:13-59).                *)

\* the most calls of the scheduler in one behaviour
MaxRafCalls == 4

RafCallbacks == {"mockFn1", "mockFn2"}

RafLog(cb, arg) == [cb |-> cb, arg |-> arg]

RafInit ==
    /\ args = [fn |-> "createRafScheduler"]
    /\ ret = [scheduled |-> FALSE, callback |-> "null", frames |-> <<>>]
    /\ called = "createRafScheduler"
    /\ Idle

\* rafSchedule(fn)
RafScheduleCalled ==
    /\ called = "createRafScheduler"
    /\ Len(SelectSeq(callLog, LAMBDA e : e.cb = "rafSchedule")) < MaxRafCalls
    /\ \E fn \in RafCallbacks :
       \E s \in {rafSchedule(ret, fn)} :
           /\ ret' = s
           /\ callLog' = callLog \o <<RafLog("rafSchedule", fn)>> \o
                             [i \in 1..(Len(s.frames) - Len(ret.frames)) |->
                                  RafLog("requestAnimationFrame", "wrapper")]
    /\ UNCHANGED <<args, called, timers, component>>

\* the page runs the frame callback the scheduler requested
RafFrameFires ==
    /\ called = "createRafScheduler"
    /\ ret.frames # <<>>
    /\ ret' = [ret EXCEPT !.frames = Tail(@), !.scheduled = FALSE, !.callback = "null"]
    /\ callLog' = callLog \o <<RafLog("frame", "wrapper")>> \o
                      (IF ret.callback # "null"
                       THEN <<RafLog("callback", ret.callback)>> ELSE <<>>)
    /\ UNCHANGED <<args, called, timers, component>>

RafNext ==
    \/ RafScheduleCalled
    \/ RafFrameFires

SpecRaf == RafInit /\ [][RafNext]_vars

-----------------------------------------------------------------------------
(* Claims about createRafScheduler (checked under SpecRaf)                 *)

RafPositions(cb) == { p \in 1..Len(callLog) : callLog[p].cb = cb }

MaxOf(S) == CHOOSE x \in S : \A y \in S : y <= x

\* the position of the last frame before position p of the log, 0 if there is none
FrameBefore(p) == MaxOf({0} \cup { q \in RafPositions("frame") : q < p })

\* the entries cb of the log strictly between positions lo and hi
RafBetween(cb, lo, hi) == { r \in RafPositions(cb) : lo < r /\ r < hi }

\* C15: for one scheduler, the k >= 1 calls made before a frame fires request
\* requestAnimationFrame exactly once, and when the frame fires the callback of the last
\* of these calls runs, once, and no other callback runs; calls made after the frame has
\* fired request a new frame, and their last callback runs once when it fires.
C15_LastCallbackOncePerFrame ==
    called = "createRafScheduler" =>
        /\ \A p \in RafPositions("frame") :
               LET calls == RafBetween("rafSchedule", FrameBefore(p), p)
               IN  /\ calls # {}
                   /\ Cardinality(RafBetween("requestAnimationFrame", FrameBefore(p), p)) = 1
                   /\ p + 1 \in RafPositions("callback")
                   /\ callLog[p + 1].arg = callLog[MaxOf(calls)].arg
        /\ \A r \in RafPositions("callback") : r - 1 \in RafPositions("frame")
        /\ LET last == FrameBefore(Len(callLog) + 1)
               calls == RafBetween("rafSchedule", last, Len(callLog) + 1)
               requests == RafBetween("requestAnimationFrame", last, Len(callLog) + 1)
           IN  /\ Cardinality(requests) = (IF calls = {} THEN 0 ELSE 1)
               /\ Len(ret.frames) = Cardinality(requests)

\* mockFn1 then mockFn2 before the frame: only mockFn2 ran; mockFn1 after the frame: a
\* new frame was requested and mockFn1 ran
C15_Witness ==
    /\ called = "createRafScheduler"
    /\ callLog = << RafLog("rafSchedule", "mockFn1"),
                    RafLog("requestAnimationFrame", "wrapper"),
                    RafLog("rafSchedule", "mockFn2"),
                    RafLog("frame", "wrapper"), RafLog("callback", "mockFn2"),
                    RafLog("rafSchedule", "mockFn1"),
                    RafLog("requestAnimationFrame", "wrapper"),
                    RafLog("frame", "wrapper"), RafLog("callback", "mockFn1") >>

-----------------------------------------------------------------------------
(* Harness of createRafScheduler with a callback that calls the scheduler  *)
(* while it runs. The frame callback of the scheduler is run as the code   *)
(* runs it: scheduled is reset, the callback is called, and then callback  *)
(* is set to null (raf.ts:39-45). Every requested frame fires.             *)

\* a callback that passes mockFn2 to the scheduler that is running it
RafNestedCallback == "scheduleMockFn2"

\* the frame callback the scheduler passes to requestAnimationFrame
rafFrame(c) ==
    LET reset == [c EXCEPT !.frames = Tail(@), !.scheduled = FALSE]
        ran == IF reset.callback = RafNestedCallback
               THEN rafSchedule(reset, "mockFn2")
               ELSE reset
    IN  IF reset.callback # "null" THEN [ran EXCEPT !.callback = "null"] ELSE reset

\* rafSchedule(fn) with the callback that calls the scheduler
RafNestedScheduleCalled ==
    /\ called = "createRafScheduler"
    /\ Len(SelectSeq(callLog, LAMBDA e : e.cb = "rafSchedule")) < MaxRafCalls
    /\ \E s \in {rafSchedule(ret, RafNestedCallback)} :
           /\ ret' = s
           /\ callLog' = callLog \o <<RafLog("rafSchedule", RafNestedCallback)>> \o
                             [i \in 1..(Len(s.frames) - Len(ret.frames)) |->
                                  RafLog("requestAnimationFrame", "wrapper")]
    /\ UNCHANGED <<args, called, timers, component>>

\* the page runs the frame callback; the callback it calls may call the scheduler
RafFrameRuns ==
    /\ called = "createRafScheduler"
    /\ ret.frames # <<>>
    /\ \E s \in {rafFrame(ret)} :
           /\ ret' = s
           /\ callLog' = callLog \o <<RafLog("frame", "wrapper")>> \o
                  (IF ret.callback # "null"
                   THEN <<RafLog("callback", ret.callback)>> ELSE <<>>) \o
                  (IF ret.callback = RafNestedCallback
                   THEN <<RafLog("rafSchedule", "mockFn2")>> \o
                        [i \in 1..(Len(s.frames) - Len(ret.frames) + 1) |->
                             RafLog("requestAnimationFrame", "wrapper")]
                   ELSE <<>>)
    /\ UNCHANGED <<args, called, timers, component>>

RafNestedNext ==
    \/ RafScheduleCalled
    \/ RafNestedScheduleCalled
    \/ RafFrameRuns

SpecRafFair == RafInit /\ [][RafNestedNext]_vars /\ WF_vars(RafFrameRuns)

-----------------------------------------------------------------------------
(* Claims about createRafScheduler with callbacks that call the scheduler  *)
(* (checked under SpecRafFair)                                             *)

\* the call at position p of the log was followed by another call before a frame fired
RafSuperseded(p) ==
    \E q \in RafPositions("rafSchedule") : q > p /\ RafBetween("frame", p, q) = {}

\* the runs of the callback passed by the call at position p of the log
RafExecutions(p) ==
    { r \in RafPositions("callback") :
          /\ r > p
          /\ callLog[r].arg = callLog[p].arg
          /\ RafBetween("rafSchedule", p, r) = {} }

\* the calls whose callback is neither superseded nor run yet
RafOwed ==
    { p \in RafPositions("rafSchedule") : ~RafSuperseded(p) /\ RafExecutions(p) = {} }

\* C34: no callback is lost: every callback passed to the scheduler that is not
\* superseded by a later call before its frame fires is eventually executed, exactly
\* once, also when it is scheduled from inside a callback that is executing.
C34_NoCallbackLost ==
    /\ [](\A p \in RafPositions("rafSchedule") : Cardinality(RafExecutions(p)) <= 1)
    /\ (RafOwed # {}) ~> (RafOwed = {})

-----------------------------------------------------------------------------
(* Harness of scrollToIndex: the component is mounted and scrolled by the  *)
(* user, then its exported method is called once. args keeps the arguments *)
(* of the call and the scroll offset of the viewport at the call, ret      *)
(* whether the call threw, callLog what it wrote to the console.           *)

ScrollAligns == {"auto", "top", "bottom"}

\* scrollToIndex(index, smoothScroll, shouldThrowOnBounds): the body only logs its
\* arguments; it neither tests the index nor touches the viewport
scrollToIndex(c, index, smoothScroll, shouldThrowOnBounds) ==
    [threw |-> FALSE, component |-> c,
     log |-> <<[cb |-> "console.log", arg |-> <<index, smoothScroll, shouldThrowOnBounds>>]>>]

ScrollToIndexCalled ==
    /\ called = "none"
    /\ component.mounted
    /\ \E index \in (-1)..component.itemsLength, shouldThrowOnBounds \in BOOLEAN,
          align \in ScrollAligns :
       \E r \in {scrollToIndex(component, index, FALSE, shouldThrowOnBounds)} :
           /\ args' = [fn |-> "scrollToIndex", index |-> index, smoothScroll |-> FALSE,
                       shouldThrowOnBounds |-> shouldThrowOnBounds, align |-> align,
                       viewportScrollTop |-> component.viewportScrollTop]
           /\ called' = "scrollToIndex"
           /\ ret' = <<[threw |-> r.threw]>>
           /\ callLog' = callLog \o r.log
           /\ component' = r.component
    /\ UNCHANGED timers

ScrollNext ==
    \/ called = "none" /\ Mount
    \/ called = "none" /\ UserScrolls
    \/ called = "none" /\ ScrollEvent
    \/ called = "none" /\ AnimationFrame
    \/ ScrollToIndexCalled

SpecScroll == Init /\ [][ScrollNext]_vars

-----------------------------------------------------------------------------
(* Claims about scrollToIndex (checked under SpecScroll)                   *)

ScrollToIndexReturned == called = "scrollToIndex"

IndexOutOfRange == args.index < 0 \/ args.index >= component.itemsLength

\* C18: scrollToIndex with index < 0 or index >= items.length throws and leaves the
\* scroll offset unchanged when shouldThrowOnBounds is true; when it is false the call
\* does not throw and scrolls to the nearest valid index (index -1 in topToBottom mode:
\* item 0, offset 0).
C18_OutOfRangeIndex ==
    (ScrollToIndexReturned /\ IndexOutOfRange) =>
        IF args.shouldThrowOnBounds
        THEN /\ ret[1].threw
             /\ component.viewportScrollTop = args.viewportScrollTop
        ELSE /\ ~ret[1].threw
             /\ (args.index < 0 /\ component.itemsLength > 0
                    /\ component.mode = "topToBottom")
                  => component.viewportScrollTop = Num(0)

\* the offset the page gives the viewport when it is asked for x
ClampedOffset(x) == MathMin(MathMax(x, Num(0)), MaxViewportScrollTop(component))

\* C19: in topToBottom mode, for an index in range: with align 'auto' the scroll offset
\* stays as it is when the item lies fully inside the viewport, the item is aligned to
\* the top edge when it is above the viewport and to the bottom edge when it is below;
\* 'top' and 'bottom' always align the item to that edge.
C19_AlignPolicy ==
    (ScrollToIndexReturned /\ ~IndexOutOfRange /\ component.mode = "topToBottom") =>
        LET itemTop == Mul(Num(args.index), component.calculatedItemHeight)
            itemBottom == Add(itemTop, component.calculatedItemHeight)
            before == args.viewportScrollTop
            atTop == ClampedOffset(itemTop)
            atBottom == ClampedOffset(Sub(itemBottom, component.containerHeight))
            above == Lt(itemTop, before)
            below == Gt(itemBottom, Add(before, component.containerHeight))
        IN  CASE args.align = "top" -> component.viewportScrollTop = atTop
              [] args.align = "bottom" -> component.viewportScrollTop = atBottom
              [] OTHER -> component.viewportScrollTop =
                              (IF above THEN atTop ELSE IF below THEN atBottom ELSE before)

-----------------------------------------------------------------------------
(* Harness of the debug block of the template: the component is rendered   *)
(* with the range and height of args, then the state changes and it is     *)
(* rendered again. ret is prevVisibleRange (empty for null) and prevHeight, *)
(* callLog the calls of shouldShowDebugInfo and of debugFunction.          *)

\* the most updates of the state after the mount
MaxDebugUpdates == 2

\* the items of the list of the harness
DebugTotalItems == 3

\* A faulty variant: the heights are not compared.
shouldShowDebugInfo_rangeOnly(prevRange, currentRange, prevHeight, currentHeight) ==
    IF prevRange = <<>> THEN TRUE
    ELSE \/ ~StrictEquals(prevRange[1].start, currentRange.start)
         \/ ~StrictEquals(prevRange[1].end, currentRange.end)

\* shouldShowDebugInfo(prevRange, currentRange, prevHeight, currentHeight); prevRange is
\* the empty sequence for null
shouldShowDebugInfo(prevRange, currentRange, prevHeight, currentHeight) ==
    IF prevRange = <<>> THEN TRUE
    ELSE \/ ~StrictEquals(prevRange[1].start, currentRange.start)
         \/ ~StrictEquals(prevRange[1].end, currentRange.end)
         \/ ~StrictEquals(prevHeight, currentHeight)

\* createDebugInfo(visibleRange, totalItems, processedItems, averageItemHeight)
createDebugInfo(visibleRange, totalItems, processedItems, averageItemHeight) ==
    [visibleItemsCount |-> Sub(visibleRange.end, visibleRange.start),
     startIndex |-> visibleRange.start, endIndex |-> visibleRange.end,
     totalItems |-> totalItems, processedItems |-> processedItems,
     averageItemHeight |-> averageItemHeight]

\* the ranges and heights of the harness: ranges of a list of three items, an empty one
\* and one with a NaN start (an estimate of 0), the default estimate, a measured one, NaN
DebugRanges ==
    { [start |-> Num(0), end |-> Num(2)], [start |-> Num(1), end |-> Num(3)],
      [start |-> Num(0), end |-> Num(0)], [start |-> NaN, end |-> Num(3)] }

DebugHeights == {Num(DefaultEstimatedItemHeight), Num(30), NaN}

\* the {#if} of the each block for i = 0: the calls it makes, in their order
debugBlock(debug, prev, range, height) ==
    IF debug /\ SliceIndex(range.start, DebugTotalItems) < SliceIndex(range.end, DebugTotalItems)
    THEN <<[cb |-> "shouldShowDebugInfo",
            arg |-> [prevRange |-> prev.prevVisibleRange, currentRange |-> range,
                     prevHeight |-> prev.prevHeight, currentHeight |-> height,
                     result |-> shouldShowDebugInfo(prev.prevVisibleRange, range,
                                                    prev.prevHeight, height)]]>> \o
         (IF shouldShowDebugInfo(prev.prevVisibleRange, range, prev.prevHeight, height)
          THEN <<[cb |-> "debugFunction",
                  arg |-> createDebugInfo(range, Num(DebugTotalItems), Num(0), height)]>>
          ELSE <<>>)
    ELSE <<>>

\* the effect that records the range and the height that were rendered
debugEffect(debug, prev, range, height) ==
    IF debug THEN [prevVisibleRange |-> <<range>>, prevHeight |-> height] ELSE prev

DebugInit ==
    /\ args \in { [fn |-> "debugBlock", debug |-> d, visibleRange |-> r,
                    calculatedItemHeight |-> h, updates |-> 0] :
                    d \in BOOLEAN, r \in DebugRanges, h \in DebugHeights }
    /\ ret = [prevVisibleRange |-> <<>>, prevHeight |-> Num(0)]
    /\ called = "none"
    /\ Idle

\* the component is mounted: the template renders, then the effect runs
DebugMount ==
    /\ called = "none"
    /\ args.fn = "debugBlock"
    /\ called' = "debugBlock"
    /\ callLog' = callLog \o debugBlock(args.debug, ret, args.visibleRange,
                                         args.calculatedItemHeight)
    /\ ret' = debugEffect(args.debug, ret, args.visibleRange, args.calculatedItemHeight)
    /\ UNCHANGED <<args, timers, component>>

\* a signal the range or the height is computed from changes, to the same or to other
\* values: the template renders again, then the effect runs
DebugUpdate ==
    /\ called = "debugBlock"
    /\ args.updates < MaxDebugUpdates
    /\ \E r \in DebugRanges, h \in DebugHeights :
           /\ args' = [args EXCEPT !.visibleRange = r, !.calculatedItemHeight = h,
                                   !.updates = @ + 1]
           /\ callLog' = callLog \o debugBlock(args.debug, ret, r, h)
           /\ ret' = debugEffect(args.debug, ret, r, h)
    /\ UNCHANGED <<called, timers, component>>

DebugNext ==
    \/ DebugMount
    \/ DebugUpdate

SpecDebug == DebugInit /\ [][DebugNext]_vars

-----------------------------------------------------------------------------
(* Claims about the debug block (checked under SpecDebug)                  *)

DebugPositions(cb) == { p \in 1..Len(callLog) : callLog[p].cb = cb }

\* C21: with debug disabled nothing is emitted; with debug enabled a snapshot is emitted
\* only when shouldShowDebugInfo returned true, and it returns false exactly when the
\* previous range is not null and start, end and height all equal (===) the previous
\* values, so no snapshot is emitted while range and height stay the same.
C21_DebugDeduplicated ==
    args.fn = "debugBlock" =>
        /\ ~args.debug => callLog = <<>>
        /\ \A p \in DebugPositions("debugFunction") :
               /\ p - 1 \in DebugPositions("shouldShowDebugInfo")
               /\ callLog[p - 1].arg.result
               /\ callLog[p].arg.startIndex = callLog[p - 1].arg.currentRange.start
               /\ callLog[p].arg.endIndex = callLog[p - 1].arg.currentRange.end
        /\ \A p \in DebugPositions("shouldShowDebugInfo") :
               LET e == callLog[p].arg
                   same == /\ e.prevRange # <<>>
                           /\ StrictEquals(e.prevRange[1].start, e.currentRange.start)
                           /\ StrictEquals(e.prevRange[1].end, e.currentRange.end)
                           /\ StrictEquals(e.prevHeight, e.currentHeight)
               IN  /\ e.result = ~same
                   /\ same => (p = Len(callLog) \/ callLog[p + 1].cb # "debugFunction")

\* a snapshot at the mount, none for an update to the same range and height, one for an
\* update to another height
C21_Witness ==
    /\ args.fn = "debugBlock" /\ args.debug /\ args.updates = 2
    /\ Len(callLog) = 5
    /\ callLog[2].cb = "debugFunction"
    /\ callLog[3].cb = "shouldShowDebugInfo" /\ ~callLog[3].arg.result
    /\ callLog[3].arg.currentRange = [start |-> Num(0), end |-> Num(2)]
    /\ callLog[4].cb = "shouldShowDebugInfo" /\ callLog[4].arg.result
    /\ callLog[4].arg.prevHeight = Num(DefaultEstimatedItemHeight)
    /\ callLog[4].arg.currentHeight = Num(30)
    /\ callLog[5].cb = "debugFunction"


-----------------------------------------------------------------------------
(* Harness of the update threshold: one measurement pass of                *)
(* calculateAverageHeightDebounced over two rendered elements, from an     *)
(* empty cache and the default estimate                                    *)

\* the second element is MinFifths/5 .. MaxFifths/5 high
MinFifths == 245

\* debounceTime is 1 .. MaxDebounceTime units of time, and the time a timer has been
\* pending is counted up to MaxDebounceTime + 1
MaxDebounceTime == 2

MaxFifths == 270

\* the ledger of the component: calculatedItemHeight, heightCache, lastMeasuredIndex
Ledger(calculatedItemHeight, heightCache, lastMeasuredIndex) ==
    [calculatedItemHeight |-> calculatedItemHeight, heightCache |-> heightCache,
     lastMeasuredIndex |-> lastMeasuredIndex]

\* A faulty variant: a mean exactly 1 away from the estimate is taken over as well.
heightUpdateCallback_atOne(ledger, itemElements, visibleRangeStart, heightCache, lastMeasuredIndex, calculatedItemHeight) ==
    The({ IF Le(Num(1), MathAbs(Sub(result.newHeight, calculatedItemHeight)))
          THEN Ledger(result.newHeight, result.updatedHeightCache,
                      result.newLastMeasuredIndex)
          ELSE ledger
        : result \in {calculateAverageHeight(itemElements, visibleRangeStart, heightCache,
                                             lastMeasuredIndex)} })

\* the callback of the setTimeout of calculateAverageHeightDebounced with the onUpdate
\* of the component, on the ledger: the arguments are those captured at the call
heightUpdateCallback(ledger, itemElements, visibleRangeStart, heightCache, lastMeasuredIndex, calculatedItemHeight) ==
    The({ IF Gt(MathAbs(Sub(result.newHeight, calculatedItemHeight)), Num(1))
          THEN Ledger(result.newHeight, result.updatedHeightCache,
                      result.newLastMeasuredIndex)
          ELSE ledger
        : result \in {calculateAverageHeight(itemElements, visibleRangeStart, heightCache,
                                             lastMeasuredIndex)} })

\* A faulty variant: a pending timeout does not hold back another one.
debounceSkips_ignoringTimeout(browser, isCalculatingHeight, heightUpdateTimeout, currentIndex, lastMeasuredIndex) ==
    \/ ~browser \/ isCalculatingHeight
    \/ StrictEquals(currentIndex, lastMeasuredIndex)

\* the guard clauses of calculateAverageHeightDebounced: it returns null at once
debounceSkips(browser, isCalculatingHeight, heightUpdateTimeout, currentIndex, lastMeasuredIndex) ==
    \/ ~browser \/ isCalculatingHeight \/ heightUpdateTimeout # "null"
    \/ StrictEquals(currentIndex, lastMeasuredIndex)

\* the arguments of the call: the environment, the flag, the handle of an earlier timeout
\* or null, lastMeasuredIndex (the range starts at 0), debounceTime and the heights of
\* the two elements
ThresholdInit ==
    /\ args \in { [fn |-> "calculateAverageHeightDebounced",
                   heights |-> <<Num(a), Frac(k, 5)>>,
                   browser |-> b, isCalculatingHeight |-> ic, heightUpdateTimeout |-> hut,
                   lastMeasuredIndex |-> Num(lmi), debounceTime |-> dt] :
                    a \in {29, 30, 31}, k \in MinFifths..MaxFifths,
                    b \in BOOLEAN, ic \in BOOLEAN, hut \in {"null", "timeout"},
                    lmi \in {-1, 0}, dt \in 1..MaxDebounceTime }
    /\ ret = Ledger(Num(DefaultEstimatedItemHeight), EmptyCache, args.lastMeasuredIndex)
    /\ called = "none"
    /\ Idle

\* calculateAverageHeightDebounced is called for the range starting at 0 and returns
\* the timeout: the cache, the index and the estimate are captured
CallCalculateAverageHeightDebounced ==
    /\ called = "none"
    /\ args.fn = "calculateAverageHeightDebounced"
    /\ IF debounceSkips(args.browser, args.isCalculatingHeight, args.heightUpdateTimeout,
                        Num(0), ret.lastMeasuredIndex)
       THEN /\ timers' = timers
            /\ callLog' = <<[cb |-> "return", arg |-> "null"]>>
       ELSE /\ timers' = <<[fn |-> "measure", visibleRangeStart |-> Num(0),
                            heightCache |-> ret.heightCache,
                            lastMeasuredIndex |-> ret.lastMeasuredIndex,
                            calculatedItemHeight |-> ret.calculatedItemHeight,
                            delay |-> args.debounceTime, elapsed |-> 0]>>
            /\ callLog' = <<[cb |-> "return", arg |-> "timeout"]>>
    /\ called' = "calculateAverageHeightDebounced"
    /\ UNCHANGED <<args, ret, component>>

\* a unit of time passes
TimeAdvances ==
    /\ timers # <<>>
    /\ timers[1].elapsed <= MaxDebounceTime
    /\ timers' = <<[timers[1] EXCEPT !.elapsed = @ + 1]>>
    /\ UNCHANGED <<args, ret, called, callLog, component>>

\* the timeout fires: the two elements are measured
HeightUpdateTimerFires ==
    /\ called = "calculateAverageHeightDebounced"
    /\ timers # <<>>
    /\ timers[1].elapsed >= timers[1].delay
    /\ ret' = heightUpdateCallback(ret, <<Element(args.heights[1]), Element(args.heights[2])>>,
                                   timers[1].visibleRangeStart, timers[1].heightCache,
                                   timers[1].lastMeasuredIndex,
                                   timers[1].calculatedItemHeight)
    /\ timers' = <<>>
    /\ called' = "measured"
    /\ UNCHANGED <<args, callLog, component>>

ThresholdNext ==
    \/ CallCalculateAverageHeightDebounced
    \/ TimeAdvances
    \/ HeightUpdateTimerFires

SpecThreshold == ThresholdInit /\ [][ThresholdNext]_vars

\* the pass has measured heights 30 and h
Measured(h) == called = "measured" /\ args.heights = <<Num(30), h>>

\* C28 as stated: from an empty cache and estimate 40, a pass with heights [30, 50.4]
\* (mean 40.2) does not update the estimate, and a pass with heights [30, 52] (mean 41)
\* updates the estimate to 41.
C28_BoundaryAsStated ==
    /\ Measured(Frac(252, 5)) => ret.calculatedItemHeight = Num(40)
    /\ Measured(Num(52)) => ret.calculatedItemHeight = Num(41)

\* C28: from an empty cache and estimate 40, a pass with heights [30, 50.4] (mean 40.2)
\* does not update the estimate, and a pass with heights [30, 52] (mean 41) does not
\* update it either; a pass with heights [30, 52.2] (mean 41.1) updates it to 41.1. A
\* pass over two heights updates the estimate, to their mean, exactly when the mean is
\* more than 1 away from 40, and otherwise leaves estimate and cache as they were.
C28_BoundaryStrict ==
    /\ Measured(Frac(252, 5)) => ret.calculatedItemHeight = Num(40)
    /\ Measured(Num(52)) =>
           ret = Ledger(Num(40), EmptyCache, Num(-1))
    /\ Measured(Frac(261, 5)) =>
           ret = Ledger(Frac(411, 10),
                        (Num(0) :> Num(30)) @@ (Num(1) :> Frac(261, 5)), Num(0))
    /\ called = "measured" =>
           LET mean == Div(Add(args.heights[1], args.heights[2]), Num(2))
           IN  IF Gt(MathAbs(Sub(mean, Num(40))), Num(1))
               THEN ret.calculatedItemHeight = mean
               ELSE ret = Ledger(Num(40), EmptyCache, Num(-1))

\* heights 30 and 52 have been measured and the estimate is still 40
C28_Witness ==
    /\ Measured(Num(52))
    /\ ret.calculatedItemHeight = Num(40)
    /\ ret.heightCache = EmptyCache

\* one of the four guard clauses applies to the arguments
GuardApplies ==
    \/ ~args.browser \/ args.isCalculatingHeight \/ args.heightUpdateTimeout = "timeout"
    \/ args.lastMeasuredIndex = Num(0)

\* C32: calculateAverageHeightDebounced schedules no timer, returns null and never calls
\* onUpdate when it runs outside the browser, when isCalculatingHeight is true, when a
\* pending heightUpdateTimeout is passed or when the start of the visible range equals
\* lastMeasuredIndex; otherwise it schedules exactly one timer and returns its handle,
\* and onUpdate is not called before debounceTime has elapsed.
C32_GuardsAndDebounce ==
    [][/\ CallCalculateAverageHeightDebounced =>
              /\ ret' = ret
              /\ IF GuardApplies
                 THEN timers' = <<>> /\ callLog' = <<[cb |-> "return", arg |-> "null"]>>
                 ELSE Len(timers') = 1
                      /\ callLog' = <<[cb |-> "return", arg |-> "timeout"]>>
       /\ ret' # ret =>
              /\ ~GuardApplies
              /\ timers # <<>> /\ timers[1].elapsed >= args.debounceTime]_vars

\* the timer was set with debounceTime 2 and its callback has called onUpdate with the
\* mean of heights 30 and 54
C32_Witness ==
    /\ called = "measured" /\ args.debounceTime = 2
    /\ args.heights = <<Num(30), Num(54)>>
    /\ callLog = <<[cb |-> "return", arg |-> "timeout"]>>
    /\ ret.calculatedItemHeight = Num(42)


-----------------------------------------------------------------------------
(* IEEE 754 double arithmetic, exact: the numbers of the resize utility.   *)
(* A natural number of any size is the sequence of its digits to the base  *)
(* LimbBase, lowest first, without leading zeros; a double x >= 0 is the   *)
(* record [m, e] with x = m * 2^e, m odd or zero and below 2^53.           *)

LimbBase == 2^15

\* bits of the significand of a double
Precision == 53

RECURSIVE BigOfInt(_)
BigOfInt(n) ==
    IF n = 0 THEN <<>> ELSE <<n % LimbBase>> \o BigOfInt(n \div LimbBase)

\* the value of a number below 2^30
BigToInt(a) ==
    IF a = <<>> THEN 0 ELSE IF Len(a) = 1 THEN a[1] ELSE a[1] + LimbBase * a[2]

RECURSIVE BigTrim(_)
BigTrim(a) ==
    IF a # <<>> /\ a[Len(a)] = 0 THEN BigTrim(SubSeq(a, 1, Len(a) - 1)) ELSE a

BigLimb(a, i) == IF i <= Len(a) THEN a[i] ELSE 0

\* -1, 0, 1 as a < b, a = b, a > b
RECURSIVE BigCmpFrom(_, _, _)
BigCmpFrom(a, b, i) ==
    IF i = 0 THEN 0
    ELSE IF a[i] < b[i] THEN -1
    ELSE IF a[i] > b[i] THEN 1
    ELSE BigCmpFrom(a, b, i - 1)

BigCmp(a, b) ==
    IF Len(a) < Len(b) THEN -1
    ELSE IF Len(a) > Len(b) THEN 1
    ELSE BigCmpFrom(a, b, Len(a))

RECURSIVE BigAddFrom(_, _, _, _, _)
BigAddFrom(a, b, i, carry, acc) ==
    IF i > Len(a) /\ i > Len(b)
    THEN IF carry = 0 THEN acc ELSE Append(acc, carry)
    ELSE The({ BigAddFrom(a, b, i + 1, t \div LimbBase, Append(acc, t % LimbBase))
             : t \in {BigLimb(a, i) + BigLimb(b, i) + carry} })

BigAdd(a, b) == BigAddFrom(a, b, 1, 0, <<>>)

\* a - b for a >= b
RECURSIVE BigSubFrom(_, _, _, _, _)
BigSubFrom(a, b, i, borrow, acc) ==
    IF i > Len(a) THEN BigTrim(acc)
    ELSE The({ BigSubFrom(a, b, i + 1, IF t < 0 THEN 1 ELSE 0,
                          Append(acc, IF t < 0 THEN t + LimbBase ELSE t))
             : t \in {a[i] - BigLimb(b, i) - borrow} })

BigSub(a, b) == BigSubFrom(a, b, 1, 0, <<>>)

\* a * k for 0 <= k < LimbBase
RECURSIVE BigMulSmallFrom(_, _, _, _, _)
BigMulSmallFrom(a, k, i, carry, acc) ==
    IF i > Len(a)
    THEN IF carry = 0 THEN acc ELSE Append(acc, carry)
    ELSE The({ BigMulSmallFrom(a, k, i + 1, t \div LimbBase, Append(acc, t % LimbBase))
             : t \in {a[i] * k + carry} })

BigMulSmall(a, k) == IF k = 0 THEN <<>> ELSE BigMulSmallFrom(a, k, 1, 0, <<>>)

RECURSIVE BigMul(_, _)
BigMul(a, b) ==
    IF a = <<>> \/ b = <<>> THEN <<>>
    ELSE The({ BigAdd(BigMulSmall(a, b[1]), IF rest = <<>> THEN <<>> ELSE <<0>> \o rest)
             : rest \in {BigMul(a, Tail(b))} })

\* a \div k for 0 < k < LimbBase
RECURSIVE BigDivSmallFrom(_, _, _, _, _)
BigDivSmallFrom(a, k, i, rem, acc) ==
    IF i = 0 THEN BigTrim(acc)
    ELSE The({ BigDivSmallFrom(a, k, i - 1, t % k, <<t \div k>> \o acc)
             : t \in {rem * LimbBase + a[i]} })

BigDivSmall(a, k) == BigDivSmallFrom(a, k, Len(a), 0, <<>>)

\* a * 2^t
RECURSIVE BigShl(_, _)
BigShl(a, t) ==
    IF t = 0 \/ a = <<>> THEN a
    ELSE IF t >= 15 THEN BigShl(<<0>> \o a, t - 15)
    ELSE BigMulSmall(a, 2^t)

\* a \div 2^t
RECURSIVE BigShr(_, _)
BigShr(a, t) ==
    IF t = 0 \/ a = <<>> THEN a
    ELSE IF t >= 15 THEN BigShr(Tail(a), t - 15)
    ELSE BigDivSmall(a, 2^t)

RECURSIVE IntBitLength(_)
IntBitLength(n) == IF n = 0 THEN 0 ELSE 1 + IntBitLength(n \div 2)

BigBitLength(a) ==
    IF a = <<>> THEN 0 ELSE 15 * (Len(a) - 1) + IntBitLength(a[Len(a)])

\* bits of one digit of the long division
DigitBits == 5

\* long division: the quotient q and the remainder r of a by b, a digit of DigitBits
\* bits at a time, with bsh = b * 2^(DigitBits * i) and a < bsh * 2^DigitBits
RECURSIVE BigDivLoop(_, _, _, _)
BigDivLoop(a, bsh, i, q) ==
    IF i < 0 THEN [q |-> q, r |-> a]
    ELSE The({ BigDivLoop(s.a, s.bsh, i - 1, s.q)
             : s \in { [a |-> BigSub(a, BigMulSmall(bsh, d)),
                        bsh |-> BigShr(bsh, DigitBits),
                        q |-> BigAdd(BigMulSmall(q, 2^DigitBits), BigOfInt(d))]
                     : d \in { CHOOSE d \in 0..(2^DigitBits - 1) :
                                 /\ BigCmp(BigMulSmall(bsh, d), a) <= 0
                                 /\ BigCmp(BigMulSmall(bsh, d + 1), a) > 0 } } })

BigDivMod(a, b) ==
    The({ BigDivLoop(a, BigShl(b, DigitBits * t), t, <<>>)
        : t \in {IF BigBitLength(a) < BigBitLength(b) THEN 0
                 ELSE (BigBitLength(a) - BigBitLength(b)) \div DigitBits} })

\* m * 2^e with the trailing zero bits of m moved to the exponent
RECURSIVE DblNorm(_, _)
DblNorm(m, e) ==
    IF m = <<>> THEN [m |-> <<>>, e |-> 0]
    ELSE IF m[1] = 0 THEN DblNorm(Tail(m), e + 15)
    ELSE IF m[1] % 2 = 0 THEN The({ DblNorm(h, e + 1) : h \in {BigDivSmall(m, 2)} })
    ELSE [m |-> m, e |-> e]

\* the double nearest to n * 2^e (plus a fraction of 2^e when inexact), ties to even
DblRound(n, e, inexact) ==
    The({ IF t <= 0 THEN DblNorm(n, e)
          ELSE The({ The({ DblNorm(IF c > 0 \/ (c = 0 /\ (inexact \/ q[1] % 2 = 1))
                                   THEN BigAdd(q, <<1>>) ELSE q,
                                   e + t)
                         : c \in {BigCmp(BigSub(n, BigShl(q, t)), BigShl(<<1>>, t - 1))} })
                   : q \in {BigShr(n, t)} })
        : t \in {BigBitLength(n) - Precision} })

DblOfInt(n) == DblNorm(BigOfInt(n), 0)

\* x * y of doubles
DblMul(x, y) == DblRound(BigMul(x.m, y.m), x.e + y.e, FALSE)

\* x / y of doubles, y > 0: the quotient is computed to three bits more than the
\* significand holds and the remainder tells whether it is exact
DblDiv(x, y) ==
    IF x.m = <<>> THEN x
    ELSE The({ The({ DblRound(d.q, x.e - y.e - g, d.r # <<>>)
                   : d \in {BigDivMod(BigShl(x.m, g), y.m)} })
             : g \in {Precision + 3 + BigBitLength(y.m)} })

\* Math.floor of a double
DblFloor(x) == IF x.e >= 0 THEN x ELSE DblNorm(BigShr(x.m, -x.e), 0)

\* -1, 0, 1 as x < y, x = y, x > y, for any m * 2^e
DblCmp(x, y) ==
    The({ BigCmp(BigShl(x.m, x.e - e), BigShl(y.m, y.e - e))
        : e \in {IF x.e < y.e THEN x.e ELSE y.e} })

\* x + y, exact (not rounded)
ExactAdd(x, y) ==
    The({ [m |-> BigAdd(BigShl(x.m, x.e - e), BigShl(y.m, y.e - e)), e |-> e]
        : e \in {IF x.e < y.e THEN x.e ELSE y.e} })


-----------------------------------------------------------------------------
(* Harness of the utility updateHeightAndScroll: it is called with a state, *)
(* with the setters of the component and with elements as the unit test    *)
(* builds them, and called again on the state the setters have left        *)

\* scrollTop is 0, 10, .. 10 * MaxScrollSteps
MaxScrollSteps == 70

\* calculatedItemHeight is the mean of a measurement: a sum of heights by their number
EstimateMeans == {<<30, 1>>, <<40, 1>>, <<81, 2>>, <<130, 3>>, <<201, 5>>, <<411, 10>>}

\* a mock element, or null
MockContainer(present, height) == [present |-> present, height |-> height]

MockViewport(present, scrollTop) == [present |-> present, scrollTop |-> scrollTop]

\* the height of the mock container and the scrollTop of the mock viewport
MockHeight == DblOfInt(500)

MockScrollTop == DblOfInt(0)

\* the estimates as doubles
ResizeEstimates == { DblDiv(DblOfInt(h[1]), DblOfInt(h[2])) : h \in EstimateMeans }

ResizeScrollTops == { DblOfInt(10 * j) : j \in 0..MaxScrollSteps }

\* the VirtualListState passed to the utility
VirtualListStates ==
    { [initialized |-> init, mode |-> m,
       containerElement |-> MockContainer(ce, MockHeight),
       viewportElement |-> MockViewport(ve, MockScrollTop),
       calculatedItemHeight |-> h,
       scrollTop |-> st,
       height |-> MockScrollTop] :
        init \in BOOLEAN, m \in Modes, ce \in BOOLEAN, ve \in BOOLEAN,
        h \in ResizeEstimates, st \in ResizeScrollTops }

SetterCall(call, arg) == [call |-> call, arg |-> arg]

\* A faulty variant: the scroll position is aligned in topToBottom mode as well.
utilsUpdateHeightAndScrollCalls_anyMode(state, immediate) ==
    IF immediate /\ state.containerElement.present /\ state.viewportElement.present
                 /\ state.initialized
    THEN The({ <<SetterCall("setHeight", state.containerElement.height),
                 SetterCall("viewportElement.scrollTop", newScrollTop),
                 SetterCall("setScrollTop", newScrollTop)>>
             : newScrollTop \in
                 {DblMul(DblFloor(DblDiv(state.scrollTop, state.calculatedItemHeight)),
                         state.calculatedItemHeight)} })
    ELSE <<>>

\* updateHeightAndScroll(state, setters, immediate) of utils/virtualList.ts: the calls of
\* the setters and the write to viewportElement.scrollTop, in their order
utilsUpdateHeightAndScrollCalls(state, immediate) ==
    IF immediate
    THEN IF state.containerElement.present /\ state.viewportElement.present
            /\ state.initialized
         THEN <<SetterCall("setHeight", state.containerElement.height)>> \o
              (IF state.mode = "bottomToTop"
               THEN The({ <<SetterCall("viewportElement.scrollTop", newScrollTop),
                            SetterCall("setScrollTop", newScrollTop)>>
                        : newScrollTop \in
                            {The({ DblMul(visibleIndex, state.calculatedItemHeight)
                                 : visibleIndex \in
                                     {DblFloor(DblDiv(state.scrollTop,
                                                      state.calculatedItemHeight))} })} })
               ELSE <<>>)
         ELSE <<>>
    ELSE <<>>

\* the setters the component passes (height = h, scrollTop = st, initialized = i) and the
\* write to the element, applied to the state in the order of the calls
RECURSIVE ApplySetterCalls(_, _)
ApplySetterCalls(state, calls) ==
    IF calls = <<>> THEN state
    ELSE The({ ApplySetterCalls(
                   CASE c.call = "setHeight" -> [state EXCEPT !.height = c.arg]
                     [] c.call = "setScrollTop" -> [state EXCEPT !.scrollTop = c.arg]
                     [] c.call = "setInitialized" -> [state EXCEPT !.initialized = c.arg]
                     [] c.call = "viewportElement.scrollTop" ->
                            [state EXCEPT !.viewportElement.scrollTop = c.arg],
                   Tail(calls))
             : c \in {Head(calls)} })

ResizeInit ==
    /\ args \in { [fn |-> "updateHeightAndScroll", state |-> st, immediate |-> imm] :
                    st \in VirtualListStates, imm \in BOOLEAN }
    /\ ret = <<>>
    /\ called = "none"
    /\ Idle

CallUpdateHeightAndScroll ==
    /\ called = "none"
    /\ args.fn = "updateHeightAndScroll"
    /\ \E calls \in {utilsUpdateHeightAndScrollCalls(args.state, args.immediate)} :
          /\ callLog' = calls
          /\ ret' = <<ApplySetterCalls(args.state, calls)>>
    /\ called' = "updateHeightAndScroll"
    /\ UNCHANGED <<args, timers, component>>

\* the container is resized once more: the utility is called with the state the first
\* call has left, the estimate being the same
CallUpdateHeightAndScrollAgain ==
    /\ called = "updateHeightAndScroll"
    /\ Len(ret) = 1
    /\ \E calls \in {utilsUpdateHeightAndScrollCalls(ret[1], args.immediate)} :
          /\ callLog' = callLog \o calls
          /\ ret' = Append(ret, ApplySetterCalls(ret[1], calls))
    /\ UNCHANGED <<args, called, timers, component>>

ResizeNext ==
    \/ CallUpdateHeightAndScroll
    \/ CallUpdateHeightAndScrollAgain

SpecResize == ResizeInit /\ [][ResizeNext]_vars

-----------------------------------------------------------------------------
(* Claims about the utility updateHeightAndScroll (checked under SpecResize) *)

ResizeCalled == called = "updateHeightAndScroll" /\ Len(ret) = 1

\* the utility has nothing to do: not immediate, not initialized, or an element is null
ResizeSkipped ==
    \/ ~args.immediate
    \/ ~args.state.initialized
    \/ ~args.state.containerElement.present
    \/ ~args.state.viewportElement.present

\* C29: the utility updateHeightAndScroll calls no setter and does not write the
\* viewport's scrollTop when immediate is false, when initialized is false, or when the
\* container or the viewport element is missing; it never calls setInitialized; and in
\* topToBottom mode it calls setHeight only: it neither calls setScrollTop nor writes the
\* viewport's scrollTop.
C29_UtilityNoOpAndSetters ==
    ResizeCalled =>
        /\ ResizeSkipped => (callLog = <<>> /\ ret[1] = args.state)
        /\ \A i \in 1..Len(callLog) : callLog[i].call # "setInitialized"
        /\ ret[1].initialized = args.state.initialized
        /\ args.state.mode = "topToBottom" =>
               /\ \A i \in 1..Len(callLog) : callLog[i].call = "setHeight"
               /\ ret[1].scrollTop = args.state.scrollTop
               /\ ret[1].viewportElement = args.state.viewportElement

\* an immediate call in topToBottom mode, initialized and with both elements, has called
\* setHeight(500) and nothing else
C29_Witness ==
    /\ ResizeCalled /\ ~ResizeSkipped
    /\ args.state.mode = "topToBottom"
    /\ args.state.scrollTop = DblOfInt(90)
    /\ callLog = <<SetterCall("setHeight", DblOfInt(500))>>
    /\ ret[1].height = DblOfInt(500)


\* the utility has aligned the scroll position: an immediate call in bottomToTop mode,
\* initialized and with both elements
ResizeAligned ==
    /\ called = "updateHeightAndScroll" /\ ~ResizeSkipped
    /\ args.state.mode = "bottomToTop"

=============================================================================
